---- MODULE Spec2Model ----
(***************************************************************************)
(* Tripwire: the client's request attempts, service-time sampler, staged   *)
(* runs and workload tickers (pkg/client/client.go), the parse of the      *)
(* config (parseConfig), the server's worker semaphore and request         *)
(* handlers (pkg/server/server.go), the control plane's POST /server and   *)
(* POST /client/workloads, the policy lists' executors                     *)
(* (pkg/policy/policies.go) and the strategy runner (main.go).             *)
(***************************************************************************)
EXTENDS Integers, Naturals, Sequences, FiniteSets, TLC

\* ------------------------------------------------------------------ bounds
\* Concurrent request attempts of one client run.
MaxAttempts == 2

Attempts == 1..MaxAttempts

\* Requests that reach the servers.
MaxRequests == 2

Requests == 1..MaxRequests

\* Largest thread count of a server config (threads is a positive integer).
MaxThreads == 2

ThreadCounts == 1..MaxThreads

\* Concurrent POST /server requests of the control plane.
Posts == {1, 2}

\* Declared service times, in nanoseconds (time.Duration): none, less than
\* one hundred, one hundred, and more with a remainder.
ServiceTimes == {0, 50, 100, 150}

\* The service times that take no full slice.
ShortServiceTimes == {0, 50}

\* A service time whose slices have length 0.
SpinServiceTimes == {50}

\* Stages of a client config.
MaxStages == 3

\* Requests a staged client emits in one run.
MaxTicks == 2

\* rps of a stage as unmarshalled: 0 when the YAML leaves it out.
RpsValues == {0, 1, 2}

\* Entries of a service-time distribution.
MaxEntries == 2

\* Largest weight of an entry (a weight left out in the YAML is 1).
MaxWeight == 2

Weights == 0..MaxWeight

\* Service times of the entries of a distribution, in nanoseconds.
EntryTimes == {10, 20}

\* ------------------------------------------------------- program constants
StatusOK == 200
StatusBadRequest == 400
StatusMethodNotAllowed == 405
StatusRequestTimeout == 408
StatusTooManyRequests == 429
StatusInternalServerError == 500
StatusServiceUnavailable == 503
StatusGatewayTimeout == 504

\* The status codes a response can carry: the six the switch of sendRequest
\* names and the one the server itself writes on a decode error.
Statuses ==
  {StatusOK, StatusBadRequest, StatusRequestTimeout, StatusTooManyRequests,
   StatusInternalServerError, StatusServiceUnavailable, StatusGatewayTimeout}

\* The classes an error returned by httpClient.Do falls in: a policy rejection
\* (ratelimiter.ErrExceeded, adaptivelimiter.ErrExceeded, bulkhead.ErrFull,
\* circuitbreaker.ErrOpen), a timeout (timeout.ErrExceeded or a net.Error with
\* Timeout()), or anything else.  "nil" is no error.
ErrKinds == {"rejected", "timeout", "other"}

\* handleRequest divides the service time into this many slices (line 91).
Slices == 100

VARIABLES
  \* ---- client: one run's WorkloadMetrics and its request attempts
  aPc,          \* aPc[a]: position of attempt a inside sendRequest
  aErr,         \* aErr[a]: class of the error Do returned ("nil" for none)
  aStatus,      \* aStatus[a]: resp.StatusCode (0 when Do returned an error)
  aTrace,       \* aTrace[a]: the metric operations attempt a has performed, in order
  total,        \* ClientReqTotal
  successes,    \* ClientReqSuccesses
  rejected,     \* ClientReqRejected
  timeouts,     \* ClientReqTimeouts
  failures,     \* ClientReqFailures
  observations, \* number of observations in ClientReqResponseTimes
  exited,       \* the process has been terminated by logger.Fatalw (os.Exit)
  \* ---- servers: one per strategy, all built from the one config.Server
  numServers,   \* len(config.Strategies)
  threads,      \* config.Server.Threads: the Config every Server.config points to
  capacity,     \* capacity[s]: cap(s.availableThreads), fixed by NewServer
  avail,        \* avail[s]: len(s.availableThreads), the permits in the channel
  sPc,          \* sPc[s]: position of the goroutine running s.Start
  sI,           \* sI[s]: the loop variable i of Start's worker preparation
  mtx,          \* mtx[s]: the POST holding s.mtx (0 when unlocked)
  gThreads,     \* the server_threads gauge (one for the whole process)
  gServiceTime, \* gServiceTime[s]: the server_service_time gauge of s's strategy
  inflight,     \* inflight[s]: the server_inflight_requests gauge of s's strategy
  \* ---- request handlers (Server.handleRequest)
  hPc,          \* hPc[h]: position of handler h
  hSrv,         \* hSrv[h]: the server handling request h (0 before it arrives)
  hT,           \* hT[h]: req.ServiceTime
  hWork,        \* hWork[h]: workCompleted
  hHeld,        \* hHeld[h]: permits h has received and not sent back
  hCancelled,   \* hCancelled[h]: r.Context().Err() != nil
  clientStopped,\* the clients have stopped emitting requests
  \* ---- control plane: POST /server (updateServers)
  pPc,          \* pPc[p]: position of the handler of POST p
  pN,           \* pN[p]: config.Threads of the posted config
  pIdx,         \* pIdx[p]: index in the loop over the servers
  pOld,         \* pOld[p]: oldThreads of the running UpdateConfig call
  pLeft,        \* pLeft[p]: iterations left in the grow or drain loop
  pStatus,      \* pStatus[p]: status code of the reply (0 before it is written)
  \* ---- service-time sampler: lookups in one WeightedServiceTimes
  wDist,        \* the WeightedServiceTimes looked up in
  wNext,        \* the next weight of the sweep over 0..Sum-1
  wHits,        \* wHits[t]: lookups of the sweep that returned service time t
  wLast,        \* the last lookup: its weight argument and what it returned
  \* ---- staged client: parseConfig, Client.Start and performStage
  rawStages,    \* client.stages as unmarshalled from the YAML
  stages,       \* config.Client.Stages after parseConfig
  cPc,          \* position of the goroutine running Client.Start
  cStage,       \* index of the stage performStage runs (0 before the first)
  elapsed,      \* the stages whose time.After(stage.Duration) timer has fired
  emitted       \* the last request emitted: its number, stage and service time

VARIABLES
  \* ---- policies: one strategy's policy lists and a request in its executor
  polServer,    \* strategy.ServerPolicies as unmarshalled
  polClient,    \* strategy.ClientPolicies as unmarshalled
  polExecutor,  \* the policies the client's executor was built from, in order
  gMinTimeout,  \* the min_timeout gauge of the strategy
  xPc,          \* position of one request inside the client's executor
  xAt,          \* index of the policy the request has reached
  xAdmitted,    \* the policies that have admitted the request, in order
  xRejectedBy   \* the policy that rejected the request

VARIABLES
  \* ---- workload client: Client.Start, performWorkload, UpdateWorkloads
  cfgWorkloads,    \* c.config.Workloads: the number of the workload set installed
  cancelWorkloads, \* c.cancelWorkloads: the context it cancels (0 for nil)
  ctxDone,         \* the workload contexts that have been cancelled
  cMtx,            \* c.mtx: "free", "read" (Start's RLock) or "dead"
  wPc,             \* position of the goroutine running Client.Start
  wCtx,            \* the context of Start's current iteration
  wRange,          \* the workload set Start's range loop iterates over
  wIdx,            \* the workload the range loop launches next
  tickers,         \* the running performWorkload goroutines
  wEmitted,        \* the last request launched by a ticker
  wLaunch,         \* how the attempt followed in sendRequest was launched
  qPc,             \* qPc[q]: position of the handler of POST /client/workloads q
  qStatus          \* qStatus[q]: status code of its reply (0 before it is written)

VARIABLES
  \* ---- strategy runner: main, startClientAndServer and the pairs' Start
  now,          \* the time, in seconds since main started
  rWorkloads,   \* len(config.Client.Workloads) > 0
  rStages,      \* len(config.Client.Stages), each stage lasting StageSeconds
  rPc,          \* position of main
  rI,           \* the strategy main's loop is at
  rWg,          \* the counter of the WaitGroup wg
  rWake,        \* when main's time.Sleep ends
  rCreatedAt,   \* rCreatedAt[i]: when startClientAndServer created pair i (-1: not yet)
  rWaitAt,      \* rWaitAt[i]: when wg.Wait returned for strategy i (-1: not yet)
  kPc,          \* kPc[i]: position of the goroutine running client i's Start
  kStage,       \* kStage[i]: the stage client i is in
  kDeadline,    \* kDeadline[i]: when the timer of that stage fires
  vPc,          \* vPc[i]: position of the goroutine running server i's Start
  vDeadline,    \* vDeadline[i]: when server i's time.Sleep ends
  rAttempt      \* rAttempt[i]: the request attempt of client i that is followed

VARIABLES
  \* ---- circuit breaker: the breaker ToPolicy builds and its gauge
  cbConfig,        \* the CircuitBreakerConfig of the policy entry
  cbThresholding,  \* the builder call that set the failure thresholding
  cbState,         \* the breaker's state: "closed", "open" or "halfOpen"
  cbChanges,       \* the state changes the breaker has made
  gThrottle,       \* the throttle_probability gauge
  bPc              \* bPc[b]: position of execution b in the breaker

VARIABLES
  \* ---- go-concurrency-limits limiter: gclExecutor.Apply
  lLimit,       \* the limit of the limiter's strategy
  lBusy,        \* the permits acquired and not released
  ePc,          \* ePc[e]: position of execution e in Apply
  eInner,       \* eInner[e]: the calls of innerFn execution e has made
  eRecorded,    \* eRecorded[e]: the calls of permit.Record it has made
  ePermit,      \* ePermit[e]: TryAcquirePermit gave execution e a permit
  eResult       \* eResult[e]: what Apply returned ("none" before it returns)

VARIABLES
  \* ---- workload installation: parseConfig and updateClients
  iRaw,         \* the workload list as yaml.Unmarshal last produced it
  iRun,         \* the workload list the clients run (config.Client.Workloads)
  iPc,          \* how iRun was installed: "unmarshalled" before parseConfig
  iUpdates      \* the POST /client/workloads requests handled

VARIABLES
  \* ---- clients of parallel strategies sharing one client.Config
  mMtx,         \* mMtx[c]: c.mtx of client c: "free", "read" or "write"
  sgPc,         \* sgPc[c]: position of the goroutine running client c's Start
  sCancelSet,   \* sCancelSet[c]: c.cancelWorkloads is not nil
  sDone,        \* sDone[c]: the context of the stored cancel function is cancelled
  uPc,          \* position of updateClients inside UpdateWorkloads
  uIdx,         \* the client updateClients is at
  rEmpty        \* the workloads key of the config holds an empty list

clientVars ==
  <<aPc, aErr, aStatus, aTrace, total, successes, rejected, timeouts, failures,
    observations, exited>>

semVars == <<threads, avail, sI, mtx, gThreads>>

startVars == <<sPc>>

handlerVars ==
  <<hPc, hSrv, hT, hWork, hHeld, hCancelled, gServiceTime, inflight, clientStopped>>

postVars == <<pPc, pN, pIdx, pOld, pLeft, pStatus>>

serverVars == <<numServers, capacity, semVars, startVars, handlerVars, postVars>>

samplerVars == <<wDist, wNext, wHits, wLast>>

stageVars == <<rawStages, stages, cPc, cStage, elapsed, emitted>>

loadVars == <<samplerVars, stageVars>>

policyVars ==
  <<polServer, polClient, polExecutor, gMinTimeout, xPc, xAt, xAdmitted, xRejectedBy>>

workloadVars ==
  <<cfgWorkloads, cancelWorkloads, ctxDone, cMtx, wPc, wCtx, wRange, wIdx, tickers,
    wEmitted, wLaunch, qPc, qStatus>>

runnerVars ==
  <<now, rWorkloads, rStages, rPc, rI, rWg, rWake, rCreatedAt, rWaitAt, kPc, kStage,
    kDeadline, vPc, vDeadline, rAttempt>>

breakerVars == <<cbConfig, cbThresholding, cbState, cbChanges, gThrottle, bPc>>

limiterVars == <<lLimit, lBusy, ePc, eInner, eRecorded, ePermit, eResult>>

installVars == <<iRaw, iRun, iPc, iUpdates>>

shareVars == <<mMtx, sgPc, sCancelSet, sDone, uPc, uIdx>>

modeVars == <<rEmpty>>

extVars == <<breakerVars, limiterVars, installVars, shareVars, modeVars>>

ctlVars == <<policyVars, workloadVars, runnerVars, extVars>>

vars == <<clientVars, serverVars, loadVars, ctlVars>>

\* ======================================================== nothing configured

\* The min_timeout gauge before MinTimeout.Set (main.go line 88).
NotSet == [sec |-> -1, nsec |-> 0]

\* No strategy's policies have been turned into an executor.
InitNoPolicies ==
  /\ polServer = <<>>
  /\ polClient = <<>>
  /\ polExecutor = <<>>
  /\ gMinTimeout = NotSet
  /\ xPc = "idle"
  /\ xAt = 0
  /\ xAdmitted = <<>>
  /\ xRejectedBy = 0

\* POST /client/workloads requests of the control plane.
MaxUpdates == 2

ClientPosts == 1..MaxUpdates

\* No request has been launched by a ticker.
NotLaunched == [ctx |-> -1, set |-> -1, w |-> 0, installed |-> -1, overtaken |-> FALSE]

\* A client without workloads: Start never enters its workload loop.
InitNoWorkloads ==
  /\ cfgWorkloads = 0
  /\ cancelWorkloads = 0
  /\ ctxDone = {}
  /\ cMtx = "free"
  /\ wPc = "none"
  /\ wCtx = 0
  /\ wRange = 0
  /\ wIdx = 0
  /\ tickers = {}
  /\ wEmitted = NotLaunched
  /\ wLaunch = NotLaunched
  /\ qPc = [q \in ClientPosts |-> "idle"]
  /\ qStatus = [q \in ClientPosts |-> 0]

\* Strategies of a config.
MaxStrategies == 2

Strategies == 1..MaxStrategies

\* main has not started.
InitNoRunner ==
  /\ now = 0
  /\ rWorkloads = FALSE
  /\ rStages = 0
  /\ rPc = "none"
  /\ rI = 0
  /\ rWg = 0
  /\ rWake = 0
  /\ rCreatedAt = [i \in Strategies |-> -1]
  /\ rWaitAt = [i \in Strategies |-> -1]
  /\ kPc = [i \in Strategies |-> "none"]
  /\ kStage = [i \in Strategies |-> 0]
  /\ kDeadline = [i \in Strategies |-> 0]
  /\ vPc = [i \in Strategies |-> "none"]
  /\ vDeadline = [i \in Strategies |-> 0]
  /\ rAttempt = [i \in Strategies |-> "none"]

\* Executions that go through one policy.
MaxExecutions == 3

Executions == 1..MaxExecutions

\* The zero CircuitBreakerConfig.
NoBreakerConfig == [capacity |-> 0, period |-> 0, rate |-> 0]

\* No policy entry is a circuit breaker.
InitNoBreaker ==
  /\ cbConfig = NoBreakerConfig
  /\ cbThresholding = "none"
  /\ cbState = "closed"
  /\ cbChanges = 0
  /\ gThrottle = 0
  /\ bPc = [b \in Executions |-> "idle"]

\* No policy entry is a go-concurrency-limits limiter.
InitNoLimiter ==
  /\ lLimit = 0
  /\ lBusy = 0
  /\ ePc = [e \in Executions |-> "idle"]
  /\ eInner = [e \in Executions |-> 0]
  /\ eRecorded = [e \in Executions |-> 0]
  /\ ePermit = [e \in Executions |-> FALSE]
  /\ eResult = [e \in Executions |-> "none"]

\* No workload list has been unmarshalled.
InitNoInstall ==
  /\ iRaw = <<>>
  /\ iRun = <<>>
  /\ iPc = "none"
  /\ iUpdates = 0

\* The clients of one config.
SharingClients == {1, 2}

\* No client has been started on the shared config.
InitNoSharing ==
  /\ mMtx = [c \in SharingClients |-> "free"]
  /\ sgPc = [c \in SharingClients |-> "none"]
  /\ sCancelSet = [c \in SharingClients |-> FALSE]
  /\ sDone = [c \in SharingClients |-> FALSE]
  /\ uPc = "idle"
  /\ uIdx = 0

\* The config has no workloads key, or a list with workloads in it.
InitNoEmptyList == rEmpty = FALSE

InitNoExt ==
  InitNoBreaker /\ InitNoLimiter /\ InitNoInstall /\ InitNoSharing /\ InitNoEmptyList

InitNoCtl == InitNoPolicies /\ InitNoWorkloads /\ InitNoRunner /\ InitNoExt

\* ==================================================== service-time sampler

\* WeightedServiceTime (lines 57-60).
Entry(t, w) == [serviceTime |-> t, weight |-> w]

Entries == {Entry(t, w) : t \in EntryTimes, w \in Weights}

SeqsUpTo(S, n) == UNION {[1..k -> S] : k \in 0..n}

\* WeightedServiceTimes (line 78) of up to MaxEntries entries.
Distributions == SeqsUpTo(Entries, MaxEntries)

\* WeightedServiceTimes.Sum (lines 80-86).
RECURSIVE Sum(_)
Sum(w) == IF w = <<>> THEN 0 ELSE Head(w).weight + Sum(Tail(w))

\* Weighted that also stops at an entry where the remaining weight is 0.
RECURSIVE Weighted_StopsAtZero(_, _)
Weighted_StopsAtZero(w, weight) ==
  IF w = <<>> THEN 0
  ELSE IF weight - Head(w).weight <= 0 THEN Head(w).serviceTime
  ELSE Weighted_StopsAtZero(Tail(w), weight - Head(w).weight)

\* WeightedServiceTimes.Weighted (lines 93-101): subtract the weights in
\* order, return the service time of the entry at which the remaining weight
\* becomes negative, and 0 when the entries are used up.
RECURSIVE Weighted(_, _)
Weighted(w, weight) ==
  IF w = <<>> THEN 0
  ELSE IF weight - Head(w).weight < 0 THEN Head(w).serviceTime
  ELSE Weighted(Tail(w), weight - Head(w).weight)

\* The values a lookup can return: the service time of an entry, or 0.
HitTimes == EntryTimes \cup {0}

\* No request emitted yet.
NoRequest == [n |-> 0, stage |-> 0, serviceTime |-> 0]

InitNoStages ==
  /\ rawStages = <<>>
  /\ stages = <<>>
  /\ cPc = "idle"
  /\ cStage = 0
  /\ elapsed = {}
  /\ emitted = NoRequest

\* No lookup yet.
NoLookup == [weight |-> -1, serviceTime |-> 0, err |-> "nil"]

InitNoSampler ==
  /\ wDist = <<>>
  /\ wNext = 0
  /\ wHits = [t \in HitTimes |-> 0]
  /\ wLast = NoLookup

\* A lookup as Random makes it (lines 89-91), with a weight in 0..Sum-1; the
\* weights are taken in increasing order, each once.  Weighted returns a
\* duration and nothing else.
SweepStep ==
  /\ wNext < Sum(wDist)
  /\ LET t == Weighted(wDist, wNext) IN
       /\ wHits' = [wHits EXCEPT ![t] = @ + 1]
       /\ wLast' = [weight |-> wNext, serviceTime |-> t, err |-> "nil"]
  /\ wNext' = wNext + 1
  /\ UNCHANGED wDist

\* A lookup with a weight that is not below the total weight.
LookupBeyond ==
  /\ \E r \in Sum(wDist)..(Sum(wDist) + 1) :
       wLast' = [weight |-> r, serviceTime |-> Weighted(wDist, r), err |-> "nil"]
  /\ UNCHANGED <<wDist, wNext, wHits>>

\* =================================================================== client

InitClient ==
  /\ aPc = [a \in Attempts |-> "idle"]
  /\ aErr = [a \in Attempts |-> "nil"]
  /\ aStatus = [a \in Attempts |-> 0]
  /\ aTrace = [a \in Attempts |-> <<>>]
  /\ total = 0
  /\ successes = 0
  /\ rejected = 0
  /\ timeouts = 0
  /\ failures = 0
  /\ observations = 0
  /\ exited = FALSE

Log(a, ev) == [aTrace EXCEPT ![a] = Append(@, ev)]

\* sendRequest, lines 210-224: take the start timestamp, marshal the request and
\* build the HTTP request.  When http.NewRequestWithContext fails the attempt
\* returns before the total is incremented.
BuildRequest(a) ==
  /\ ~exited
  /\ aPc[a] = "idle"
  /\ \E built \in BOOLEAN :
       /\ aPc' = [aPc EXCEPT ![a] = IF built THEN "built" ELSE "done"]
       /\ aTrace' = Log(a, IF built THEN "start" ELSE "buildError")
  /\ UNCHANGED <<aErr, aStatus, total, successes, rejected, timeouts, failures,
                 observations, exited>>

\* sendRequest, line 226: ClientReqTotal.Inc().
IncTotal(a) ==
  /\ ~exited
  /\ aPc[a] = "built"
  /\ total' = total + 1
  /\ aPc' = [aPc EXCEPT ![a] = "sending"]
  /\ aTrace' = Log(a, "total")
  /\ UNCHANGED <<aErr, aStatus, successes, rejected, timeouts, failures,
                 observations, exited>>

\* DoReturns with the total counted once more inside the pipeline call.
DoReturns_CountsTotal(a) ==
  /\ ~exited
  /\ aPc[a] = "sending"
  /\ \/ \E e \in ErrKinds :
          /\ aErr' = [aErr EXCEPT ![a] = e]
          /\ UNCHANGED aStatus
     \/ \E st \in Statuses :
          /\ aStatus' = [aStatus EXCEPT ![a] = st]
          /\ UNCHANGED aErr
  /\ aPc' = [aPc EXCEPT ![a] = "classify"]
  /\ total' = total + 1
  /\ aTrace' = [aTrace EXCEPT ![a] = Append(Append(@, "do"), "total")]
  /\ UNCHANGED <<successes, rejected, timeouts, failures, observations, exited>>

\* sendRequest, line 227: httpClient.Do returns either an error or a response.
DoReturns(a) ==
  /\ ~exited
  /\ aPc[a] = "sending"
  /\ \/ \E e \in ErrKinds :
          /\ aErr' = [aErr EXCEPT ![a] = e]
          /\ UNCHANGED aStatus
     \/ \E st \in Statuses :
          /\ aStatus' = [aStatus EXCEPT ![a] = st]
          /\ UNCHANGED aErr
  /\ aPc' = [aPc EXCEPT ![a] = "classify"]
  /\ aTrace' = Log(a, "do")
  /\ UNCHANGED <<total, successes, rejected, timeouts, failures, observations, exited>>

\* IsRejection without the test on the error.
IsRejection_StatusOnly(a) ==
  aErr[a] = "nil" /\ aStatus[a] = StatusTooManyRequests

\* Whether the attempt takes the rejected branch (lines 232-235 and 255-257).
IsRejection(a) ==
  \/ aErr[a] = "rejected"
  \/ aErr[a] = "nil" /\ aStatus[a] = StatusTooManyRequests

\* IsTimeout with 500 among the timeout statuses.
IsTimeout_With500(a) ==
  \/ aErr[a] = "timeout"
  \/ aErr[a] = "nil" /\ aStatus[a] \in
       {StatusRequestTimeout, StatusInternalServerError, StatusServiceUnavailable,
        StatusGatewayTimeout}

\* Whether the attempt takes the timeout branch (lines 238-241 and 260-262).
IsTimeout(a) ==
  \/ aErr[a] = "timeout"
  \/ aErr[a] = "nil" /\ aStatus[a] \in
       {StatusRequestTimeout, StatusServiceUnavailable, StatusGatewayTimeout}

\* Whether the response falls in the default branch of the switch (line 263).
IsUnknownStatus(a) ==
  /\ aErr[a] = "nil"
  /\ aStatus[a] # 0
  /\ aStatus[a] \notin
       {StatusOK, StatusTooManyRequests, StatusInternalServerError,
        StatusRequestTimeout, StatusServiceUnavailable, StatusGatewayTimeout}

\* sendRequest, lines 230-265: the branch taken on the result of Do.
Classify(a) ==
  /\ ~exited
  /\ aPc[a] = "classify"
  /\ aPc' = [aPc EXCEPT ![a] =
       IF aErr[a] = "nil" /\ aStatus[a] = StatusOK THEN "observeOK"
       ELSE IF IsRejection(a) THEN "incRejected"
       ELSE IF IsTimeout(a) THEN "observeTimeout"
       ELSE IF IsUnknownStatus(a) THEN "fatal"
       ELSE "incFailures"]
  /\ UNCHANGED <<aErr, aStatus, aTrace, total, successes, rejected, timeouts,
                 failures, observations, exited>>

\* RecordResponseTime that observes nothing on the timeout paths.
RecordResponseTime_OnlyOK(a) ==
  /\ ~exited
  /\ aPc[a] \in {"observeOK", "observeTimeout"}
  /\ observations' = IF aPc[a] = "observeOK" THEN observations + 1 ELSE observations
  /\ aPc' = [aPc EXCEPT ![a] = IF aPc[a] = "observeOK" THEN "incSuccesses" ELSE "incTimeouts"]
  /\ aTrace' = Log(a, IF aPc[a] = "observeOK" THEN "observe" ELSE "skip")
  /\ UNCHANGED <<aErr, aStatus, total, successes, rejected, timeouts, failures, exited>>

\* recordResponseTime (lines 277-280), called on the 200 path and on the
\* timeout paths.
RecordResponseTime(a) ==
  /\ ~exited
  /\ aPc[a] \in {"observeOK", "observeTimeout"}
  /\ observations' = observations + 1
  /\ aPc' = [aPc EXCEPT ![a] = IF aPc[a] = "observeOK" THEN "incSuccesses" ELSE "incTimeouts"]
  /\ aTrace' = Log(a, "observe")
  /\ UNCHANGED <<aErr, aStatus, total, successes, rejected, timeouts, failures, exited>>

\* Lines 253-254: ClientReqSuccesses.Inc() and return.
IncSuccesses(a) ==
  /\ ~exited
  /\ aPc[a] = "incSuccesses"
  /\ successes' = successes + 1
  /\ aPc' = [aPc EXCEPT ![a] = "done"]
  /\ aTrace' = Log(a, "successes")
  /\ UNCHANGED <<aErr, aStatus, total, rejected, timeouts, failures, observations, exited>>

\* IncRejected with a return right after the rejected count.
IncRejected_Returns(a) ==
  /\ ~exited
  /\ aPc[a] = "incRejected"
  /\ rejected' = rejected + 1
  /\ aPc' = [aPc EXCEPT ![a] = "done"]
  /\ aTrace' = Log(a, "rejected")
  /\ UNCHANGED <<aErr, aStatus, total, successes, timeouts, failures, observations, exited>>

\* Lines 234 and 257: ClientReqRejected.Inc(), then on to the failure count.
IncRejected(a) ==
  /\ ~exited
  /\ aPc[a] = "incRejected"
  /\ rejected' = rejected + 1
  /\ aPc' = [aPc EXCEPT ![a] = "incFailures"]
  /\ aTrace' = Log(a, "rejected")
  /\ UNCHANGED <<aErr, aStatus, total, successes, timeouts, failures, observations, exited>>

\* Lines 240 and 262: ClientReqTimeouts.Inc(), then on to the failure count.
IncTimeouts(a) ==
  /\ ~exited
  /\ aPc[a] = "incTimeouts"
  /\ timeouts' = timeouts + 1
  /\ aPc' = [aPc EXCEPT ![a] = "incFailures"]
  /\ aTrace' = Log(a, "timeouts")
  /\ UNCHANGED <<aErr, aStatus, total, successes, rejected, failures, observations, exited>>

\* Lines 242-243 and 267: ClientReqFailures.Inc() and return.
IncFailures(a) ==
  /\ ~exited
  /\ aPc[a] = "incFailures"
  /\ failures' = failures + 1
  /\ aPc' = [aPc EXCEPT ![a] = "done"]
  /\ aTrace' = Log(a, "failures")
  /\ UNCHANGED <<aErr, aStatus, total, successes, rejected, timeouts, observations, exited>>

\* Line 264: logger.Fatalw writes the log entry and calls os.Exit(1); nothing
\* of the process runs afterwards, line 267 included.
FatalUnknownStatus(a) ==
  /\ ~exited
  /\ aPc[a] = "fatal"
  /\ exited' = TRUE
  /\ aTrace' = Log(a, "fatalLog")
  /\ UNCHANGED <<aPc, aErr, aStatus, total, successes, rejected, timeouts, failures,
                 observations>>

SendRequest(a) ==
  \/ BuildRequest(a)
  \/ IncTotal(a)
  \/ DoReturns(a)
  \/ Classify(a)
  \/ RecordResponseTime(a)
  \/ IncSuccesses(a)
  \/ IncRejected(a)
  \/ IncTimeouts(a)
  \/ IncFailures(a)
  \/ FatalUnknownStatus(a)

NextClient ==
  /\ \E a \in Attempts : SendRequest(a)
  /\ UNCHANGED <<serverVars, loadVars, ctlVars>>

\* ================================================================== servers

Servers == 1..numServers

\* NewServer (lines 35-48) for each of the k strategies, called from
\* startClientAndServer with the one config.Server: each channel is made with
\* capacity config.Threads and is empty; no request and no POST has arrived.
InitServer(k) ==
  /\ numServers = k
  /\ threads \in ThreadCounts
  /\ capacity = [s \in Servers |-> threads]
  /\ avail = [s \in Servers |-> 0]
  /\ sPc = [s \in Servers |-> "new"]
  /\ sI = [s \in Servers |-> 0]
  /\ mtx = [s \in Servers |-> 0]
  /\ gThreads = 0
  /\ gServiceTime = [s \in Servers |-> 0]
  /\ inflight = [s \in Servers |-> 0]
  /\ hPc = [h \in Requests |-> "idle"]
  /\ hSrv = [h \in Requests |-> 0]
  /\ hT = [h \in Requests |-> 0]
  /\ hWork = [h \in Requests |-> 0]
  /\ hHeld = [h \in Requests |-> 0]
  /\ hCancelled = [h \in Requests |-> FALSE]
  /\ clientStopped = FALSE
  /\ pPc = [p \in Posts |-> "idle"]
  /\ pN = [p \in Posts |-> 0]
  /\ pIdx = [p \in Posts |-> 0]
  /\ pOld = [p \in Posts |-> 0]
  /\ pLeft = [p \in Posts |-> 0]
  /\ pStatus = [p \in Posts |-> 0]

\* ---------------------------------------------------------- Server.Start

\* Start, line 54: ServerThreads.Set(config.Threads), and i := 0.
StartPrepare(s) ==
  /\ sPc[s] = "new"
  /\ gThreads' = threads
  /\ sI' = [sI EXCEPT ![s] = 0]
  /\ sPc' = [sPc EXCEPT ![s] = "fill"]
  /\ UNCHANGED <<numServers, capacity, threads, avail, mtx, handlerVars, postVars>>

\* Start, line 55: the loop condition i < int(s.config.Threads), read without
\* the lock; after the loop the server serves requests (lines 60-68).
StartFillCheck(s) ==
  /\ sPc[s] = "fill"
  /\ sPc' = [sPc EXCEPT ![s] = IF sI[s] < threads THEN "send" ELSE "serving"]
  /\ UNCHANGED <<numServers, capacity, semVars, handlerVars, postVars>>

\* Start, line 56: s.availableThreads <- struct{}{} (blocks while the channel
\* is full), then i++.
StartFillSend(s) ==
  /\ sPc[s] = "send"
  /\ avail[s] < capacity[s]
  /\ avail' = [avail EXCEPT ![s] = @ + 1]
  /\ sI' = [sI EXCEPT ![s] = @ + 1]
  /\ sPc' = [sPc EXCEPT ![s] = "fill"]
  /\ UNCHANGED <<numServers, capacity, threads, mtx, gThreads, handlerVars, postVars>>

\* ------------------------------------------------- Server.handleRequest

\* The service time and the inflight gauge are recorded before the body is
\* decoded (mutation of lines 82-88).
Arrive_RecordsUnparsed(h, Ts) ==
  /\ hPc[h] = "idle"
  /\ ~clientStopped
  /\ \E s \in Servers, decoded \in BOOLEAN, T \in Ts :
       /\ sPc[s] = "serving"
       /\ hSrv' = [hSrv EXCEPT ![h] = s]
       /\ gServiceTime' = [gServiceTime EXCEPT ![s] = T]
       /\ inflight' = [inflight EXCEPT ![s] = @ + 1]
       /\ IF decoded
            THEN /\ hT' = [hT EXCEPT ![h] = T]
                 /\ hPc' = [hPc EXCEPT ![h] = "check"]
            ELSE /\ hPc' = [hPc EXCEPT ![h] = "bad"]
                 /\ UNCHANGED hT
  /\ UNCHANGED <<numServers, capacity, semVars, startVars, hWork, hHeld, hCancelled,
                 clientStopped, postVars>>

\* handleRequest, lines 81-88: decode the body; on an error reply 400 and
\* return; otherwise set the service-time gauge and increment the inflight
\* gauge.  Requests are served once Start has reached server.Serve; the
\* request declares a service time of Ts.
Arrive(h, Ts) ==
  /\ hPc[h] = "idle"
  /\ ~clientStopped
  /\ \E s \in Servers, decoded \in BOOLEAN, T \in Ts :
       /\ sPc[s] = "serving"
       /\ hSrv' = [hSrv EXCEPT ![h] = s]
       /\ IF decoded
            THEN /\ hT' = [hT EXCEPT ![h] = T]
                 /\ gServiceTime' = [gServiceTime EXCEPT ![s] = T]
                 /\ inflight' = [inflight EXCEPT ![s] = @ + 1]
                 /\ hPc' = [hPc EXCEPT ![h] = "check"]
            ELSE /\ hPc' = [hPc EXCEPT ![h] = "bad"]
                 /\ UNCHANGED <<hT, gServiceTime, inflight>>
  /\ UNCHANGED <<numServers, capacity, semVars, startVars, hWork, hHeld, hCancelled,
                 clientStopped, postVars>>

\* workIncrement := req.ServiceTime / 100 (line 91), an integer division.
WorkIncrement(T) == T \div Slices

\* The loop goes on after the cancellation of the context (mutation of
\* line 93).
LoopCheck_IgnoresCancel(h) ==
  /\ hPc[h] = "check"
  /\ hPc' = [hPc EXCEPT ![h] = IF hWork[h] < hT[h] THEN "acquire" ELSE "dec"]
  /\ UNCHANGED <<numServers, capacity, semVars, startVars, hSrv, hT, hWork, hHeld,
                 hCancelled, gServiceTime, inflight, clientStopped, postVars>>

\* handleRequest, line 93: the loop condition.
LoopCheck(h) ==
  /\ hPc[h] = "check"
  /\ hPc' = [hPc EXCEPT ![h] =
       IF hWork[h] < hT[h] /\ ~hCancelled[h] THEN "acquire" ELSE "dec"]
  /\ UNCHANGED <<numServers, capacity, semVars, startVars, hSrv, hT, hWork, hHeld,
                 hCancelled, gServiceTime, inflight, clientStopped, postVars>>

\* handleRequest, line 94: <-s.availableThreads (blocks while the channel is
\* empty); the handler then sleeps for workIncrement holding the permit.
Acquire(h) ==
  /\ hPc[h] = "acquire"
  /\ avail[hSrv[h]] > 0
  /\ avail' = [avail EXCEPT ![hSrv[h]] = @ - 1]
  /\ hHeld' = [hHeld EXCEPT ![h] = @ + 1]
  /\ hPc' = [hPc EXCEPT ![h] = "sleep"]
  /\ UNCHANGED <<numServers, capacity, threads, sI, mtx, gThreads, startVars, hSrv, hT,
                 hWork, hCancelled, gServiceTime, inflight, clientStopped, postVars>>

\* Release with the sleep cut short by the cancellation of the context: the
\* handler leaves the loop without sending the permit back.
Release_ReturnsOnCancel(h) ==
  /\ hPc[h] = "sleep"
  /\ IF hCancelled[h]
       THEN /\ hPc' = [hPc EXCEPT ![h] = "dec"]
            /\ UNCHANGED <<avail, hHeld, hWork>>
       ELSE /\ avail[hSrv[h]] < capacity[hSrv[h]]
            /\ avail' = [avail EXCEPT ![hSrv[h]] = @ + 1]
            /\ hHeld' = [hHeld EXCEPT ![h] = @ - 1]
            /\ hWork' = [hWork EXCEPT ![h] = @ + WorkIncrement(hT[h])]
            /\ hPc' = [hPc EXCEPT ![h] = "check"]
  /\ UNCHANGED <<numServers, capacity, threads, sI, mtx, gThreads, startVars, hSrv, hT,
                 hCancelled, gServiceTime, inflight, clientStopped, postVars>>

\* handleRequest, lines 95-97: the sleep ends, s.availableThreads <- struct{}{}
\* (blocks while the channel is full), workCompleted += workIncrement.
Release(h) ==
  /\ hPc[h] = "sleep"
  /\ avail[hSrv[h]] < capacity[hSrv[h]]
  /\ avail' = [avail EXCEPT ![hSrv[h]] = @ + 1]
  /\ hHeld' = [hHeld EXCEPT ![h] = @ - 1]
  /\ hWork' = [hWork EXCEPT ![h] = @ + WorkIncrement(hT[h])]
  /\ hPc' = [hPc EXCEPT ![h] = "check"]
  /\ UNCHANGED <<numServers, capacity, threads, sI, mtx, gThreads, startVars, hSrv, hT,
                 hCancelled, gServiceTime, inflight, clientStopped, postVars>>

\* The handler returns without ServerInflightRequests.Dec() (mutation of
\* line 100).
DecInflight_KeepsGauge(h) ==
  /\ hPc[h] = "dec"
  /\ hPc' = [hPc EXCEPT ![h] = "done"]
  /\ UNCHANGED <<numServers, capacity, semVars, startVars, hSrv, hT, hWork, hHeld,
                 hCancelled, gServiceTime, inflight, clientStopped, postVars>>

\* handleRequest, line 100: ServerInflightRequests.Dec(), and return.
DecInflight(h) ==
  /\ hPc[h] = "dec"
  /\ inflight' = [inflight EXCEPT ![hSrv[h]] = @ - 1]
  /\ hPc' = [hPc EXCEPT ![h] = "done"]
  /\ UNCHANGED <<numServers, capacity, semVars, startVars, hSrv, hT, hWork, hHeld,
                 hCancelled, gServiceTime, clientStopped, postVars>>

\* The request's context is cancelled (the client closed the connection, for
\* instance after a client-side timeout) while the handler runs.
Cancel(h) ==
  /\ hPc[h] \in {"check", "acquire", "sleep"}
  /\ ~hCancelled[h]
  /\ hCancelled' = [hCancelled EXCEPT ![h] = TRUE]
  /\ UNCHANGED <<numServers, capacity, semVars, startVars, hPc, hSrv, hT, hWork, hHeld,
                 gServiceTime, inflight, clientStopped, postVars>>

\* The clients stop emitting requests.
ClientStop ==
  /\ ~clientStopped
  /\ clientStopped' = TRUE
  /\ UNCHANGED <<numServers, capacity, semVars, startVars, hPc, hSrv, hT, hWork, hHeld,
                 hCancelled, gServiceTime, inflight, postVars>>

HandleRequest(h, Ts) ==
  \/ Arrive(h, Ts)
  \/ LoopCheck(h)
  \/ Acquire(h)
  \/ Release(h)
  \/ DecInflight(h)

\* ------------------------------------- POST /server and Server.UpdateConfig

\* The servers handed to NewConfigServer, in the order of their creation:
\* POST /server applies to every server of the run.
UpdatedServers == Servers

\* The /server handler (config server, lines 77-83) and parseConfigUpdate
\* (lines 108-121): 405 for another method, 400 for a body that does not
\* parse, otherwise updateServers starts its loop over the servers.  The
\* POSTs are numbered in their order of arrival.
PostServer(p) ==
  /\ pPc[p] = "idle"
  /\ \A q \in Posts : q < p => pPc[q] # "idle"
  /\ \E kind \in {"post", "badBody", "notPost"}, n \in ThreadCounts :
       IF kind = "post"
         THEN /\ pN' = [pN EXCEPT ![p] = n]
              /\ pIdx' = [pIdx EXCEPT ![p] = 1]
              /\ pPc' = [pPc EXCEPT ![p] = "lock"]
              /\ UNCHANGED pStatus
         ELSE /\ pStatus' = [pStatus EXCEPT ![p] =
                   IF kind = "notPost" THEN StatusMethodNotAllowed ELSE StatusBadRequest]
              /\ pPc' = [pPc EXCEPT ![p] = "done"]
              /\ UNCHANGED <<pN, pIdx>>
  /\ UNCHANGED <<numServers, capacity, semVars, startVars, handlerVars, pOld, pLeft>>

\* UpdateConfig, lines 104-107: s.mtx.Lock(), oldThreads := s.config.Threads.
UpdateLock(p) ==
  /\ pPc[p] = "lock"
  /\ mtx[pIdx[p]] = 0
  /\ mtx' = [mtx EXCEPT ![pIdx[p]] = p]
  /\ pOld' = [pOld EXCEPT ![p] = threads]
  /\ pPc' = [pPc EXCEPT ![p] = "write"]
  /\ UNCHANGED <<numServers, capacity, threads, avail, sI, gThreads, startVars,
                 handlerVars, pN, pIdx, pLeft, pStatus>>

\* UpdateConfig, lines 108-119: s.config.Threads = config.Threads, then the
\* branch on newThreads against oldThreads and the loop bound.
UpdateWrite(p) ==
  /\ pPc[p] = "write"
  /\ threads' = pN[p]
  /\ pLeft' = [pLeft EXCEPT ![p] =
       IF pN[p] > pOld[p] THEN pN[p] - pOld[p] ELSE pOld[p] - pN[p]]
  /\ pPc' = [pPc EXCEPT ![p] =
       IF pN[p] > pOld[p] THEN "grow"
       ELSE IF pN[p] < pOld[p] THEN "drain" ELSE "finish"]
  /\ UNCHANGED <<numServers, capacity, avail, sI, mtx, gThreads, startVars, handlerVars,
                 pN, pIdx, pOld, pStatus>>

\* UpdateConfig, lines 112-114: one s.availableThreads <- struct{}{} of the
\* grow loop (blocks while the channel is full).
UpdateGrow(p) ==
  /\ pPc[p] = "grow"
  /\ avail[pIdx[p]] < capacity[pIdx[p]]
  /\ avail' = [avail EXCEPT ![pIdx[p]] = @ + 1]
  /\ pLeft' = [pLeft EXCEPT ![p] = @ - 1]
  /\ pPc' = [pPc EXCEPT ![p] = IF pLeft[p] = 1 THEN "finish" ELSE "grow"]
  /\ UNCHANGED <<numServers, capacity, threads, sI, mtx, gThreads, startVars,
                 handlerVars, pN, pIdx, pOld, pStatus>>

\* UpdateConfig, lines 116-118: one <-s.availableThreads of the drain loop
\* (blocks while the channel is empty).
UpdateDrain(p) ==
  /\ pPc[p] = "drain"
  /\ avail[pIdx[p]] > 0
  /\ avail' = [avail EXCEPT ![pIdx[p]] = @ - 1]
  /\ pLeft' = [pLeft EXCEPT ![p] = @ - 1]
  /\ pPc' = [pPc EXCEPT ![p] = IF pLeft[p] = 1 THEN "finish" ELSE "drain"]
  /\ UNCHANGED <<numServers, capacity, threads, sI, mtx, gThreads, startVars,
                 handlerVars, pN, pIdx, pOld, pStatus>>

\* UpdateConfig, lines 121-123: ServerThreads.Set(newThreads) and the deferred
\* s.mtx.Unlock(); then updateServers goes on to the next server, or replies
\* 200 after the last one (config server, lines 101-104).
UpdateFinish(p) ==
  /\ pPc[p] = "finish"
  /\ gThreads' = pN[p]
  /\ mtx' = [mtx EXCEPT ![pIdx[p]] = 0]
  /\ IF pIdx[p] + 1 \in UpdatedServers
       THEN /\ pIdx' = [pIdx EXCEPT ![p] = @ + 1]
            /\ pPc' = [pPc EXCEPT ![p] = "lock"]
            /\ UNCHANGED pStatus
       ELSE /\ pStatus' = [pStatus EXCEPT ![p] = StatusOK]
            /\ pPc' = [pPc EXCEPT ![p] = "done"]
            /\ UNCHANGED pIdx
  /\ pOld' = [pOld EXCEPT ![p] = 0]
  /\ UNCHANGED <<numServers, capacity, threads, avail, sI, startVars, handlerVars,
                 pN, pLeft>>

UpdateServers(p) ==
  \/ PostServer(p)
  \/ UpdateLock(p)
  \/ UpdateWrite(p)
  \/ UpdateGrow(p)
  \/ UpdateDrain(p)
  \/ UpdateFinish(p)

ServerStart(s) ==
  \/ StartPrepare(s)
  \/ StartFillCheck(s)
  \/ StartFillSend(s)

\* Requests of one kind are numbered in their order of arrival.
InOrder(h) == \A g \in Requests : g < h => hPc[g] # "idle"

\* A parallel run of two strategies: two servers built from the one
\* config.Server, short requests, and one POST /server.
NextParallel ==
  /\ \/ \E s \in Servers : ServerStart(s)
     \/ \E h \in Requests : InOrder(h) /\ HandleRequest(h, ShortServiceTimes)
     \/ \E h \in Requests : Cancel(h)
     \/ UpdateServers(1)
  /\ UNCHANGED <<clientVars, loadVars, ctlVars>>

\* Two strategies: two servers, no request and no POST yet.
InitParallel ==
  InitClient /\ InitServer(2) /\ InitNoSampler /\ InitNoStages /\ InitNoCtl

SpecParallel == InitParallel /\ [][NextParallel]_vars

\* One server with requests that go from slice to slice until they are
\* cancelled, and concurrent POSTs to /server.
NextSemaphore ==
  /\ \/ \E s \in Servers : ServerStart(s)
     \/ \E h \in Requests : InOrder(h) /\ HandleRequest(h, SpinServiceTimes)
     \/ \E h \in Requests : Cancel(h)
     \/ \E p \in Posts : UpdateServers(p)
  /\ UNCHANGED <<clientVars, loadVars, ctlVars>>

\* One strategy: one server, no request and no POST yet.
InitOneServer ==
  InitClient /\ InitServer(1) /\ InitNoSampler /\ InitNoStages /\ InitNoCtl

SpecSemaphore == InitOneServer /\ [][NextSemaphore]_vars

\* One server without POSTs and two requests: request 1 declares any service
\* time, request 2 a short one.
NextSlices ==
  /\ \/ \E s \in Servers : ServerStart(s)
     \/ HandleRequest(1, ServiceTimes)
     \/ HandleRequest(2, ShortServiceTimes)
     \/ \E h \in {1, 2} : Cancel(h)
  /\ UNCHANGED <<clientVars, loadVars, ctlVars>>

SpecSlices == InitOneServer /\ [][NextSlices]_vars

\* The same, with the clients stopping at some point.
NextDrain ==
  \/ NextSlices
  \/ ClientStop /\ UNCHANGED <<clientVars, loadVars, ctlVars>>

SpecDrain == InitOneServer /\ [][NextDrain]_vars

\* The goroutines of Start and of the handlers are scheduled fairly; a
\* goroutine blocked on the channel is served when the channel allows it
\* again and again (the channel's wait queues are first in, first out).
\* Arrivals, cancellations and the clients' stop are up to the environment.
FairHandlers ==
  /\ WF_vars(ServerStart(1) /\ UNCHANGED <<clientVars, loadVars, ctlVars>>)
  /\ \A h \in {1, 2} :
       /\ WF_vars((LoopCheck(h) \/ DecInflight(h)) /\ UNCHANGED <<clientVars, loadVars, ctlVars>>)
       /\ SF_vars(Acquire(h) /\ UNCHANGED <<clientVars, loadVars, ctlVars>>)
       /\ SF_vars(Release(h) /\ UNCHANGED <<clientVars, loadVars, ctlVars>>)

FairDrain == SpecDrain /\ FairHandlers

\* ------------------------------------------------------ servers: claims

RECURSIVE SumHeld(_, _)
SumHeld(S, s) ==
  IF S = {} THEN 0
  ELSE LET h == CHOOSE x \in S : TRUE
       IN (IF hSrv[h] = s THEN hHeld[h] ELSE 0) + SumHeld(S \ {h}, s)

\* The permits of server s: those in the channel plus those held by handlers.
Permits(s) == avail[s] + SumHeld(Requests, s)

\* The handlers of server s that are inside a work slice.
InSlice(s) == {h \in Requests : hSrv[h] = s /\ hHeld[h] > 0}

\* The handlers of server s that have arrived and not returned.
Active(s) == {h \in Requests : hSrv[h] = s /\ hPc[h] \in {"check", "acquire", "sleep", "dec"}}

\* Start has prepared the workers server s was created with and serves.
Prepared(s) == sPc[s] = "serving" /\ sI[s] = capacity[s]

\* POST p is inside an UpdateConfig call on server s, holding its lock.
Updating(p, s) == pIdx[p] = s /\ pPc[p] \in {"write", "grow", "drain", "finish"}

NoUpdateInProgress == \A p \in Posts : pPc[p] \in {"idle", "done"}

\* C3: an UpdateConfig call that grows the thread count returns without
\* needing a request in flight: while it is in its grow loop on a prepared
\* server with no request in flight, it can send its next permit.
C3_GrowNeedsNoRequest ==
  \A p \in Posts : \A s \in Servers :
    (Updating(p, s) /\ pPc[p] = "grow" /\ Prepared(s) /\ Active(s) = {})
      => avail[s] < capacity[s]

\* C4: once a POST /server with threads = n has been answered 200, every
\* server has exactly n permits, free plus held.
C4_PostAppliesToEveryServer ==
  \A p \in Posts :
    (pStatus[p] = StatusOK /\ \A s \in Servers : Prepared(s))
      => \A s \in Servers : Permits(s) = pN[p]

\* C5: on one server the UpdateConfig calls are serialized by the write lock,
\* and once Start has prepared the workers and every UpdateConfig call has
\* returned, the permits in the channel plus the permits held by handlers are
\* the thread count of the last call.
C5_PermitsMatchThreads ==
  \A s \in Servers :
    /\ Cardinality({p \in Posts : Updating(p, s)}) <= 1
    /\ \A p \in Posts : Updating(p, s) => mtx[s] = p
    /\ (sPc[s] = "serving" /\ NoUpdateInProgress) => Permits(s) = threads

\* The same for the calls that begin after Start has prepared the workers
\* the server was created with.
PermitsMatchThreadsOncePrepared ==
  \A s \in Servers :
    /\ Cardinality({p \in Posts : Updating(p, s)}) <= 1
    /\ \A p \in Posts : Updating(p, s) => mtx[s] = p
    /\ (Prepared(s) /\ mtx[s] = 0) => Permits(s) = threads

\* C6: whenever no UpdateConfig call is in progress, the handlers inside a
\* work slice on a server are at most the server's configured thread count.
C6_SliceBound ==
  (NoUpdateInProgress /\ \A s \in Servers : Prepared(s))
    => \A s \in Servers : Cardinality(InSlice(s)) <= threads

\* C7: a handler holds at most one permit, holds none while it waits for the
\* next one, and holds none once it has left the loop or returned.
C7_OnePermitPerHandler ==
  \A h \in Requests :
    /\ hHeld[h] \in {0, 1}
    /\ hPc[h] \in {"idle", "bad", "check", "acquire", "dec", "done"} => hHeld[h] = 0

\* Request 1 was cancelled after some of its slices and has returned, while
\* request 2 is inside a slice.
C7_Witness ==
  /\ hPc[1] = "done"
  /\ hCancelled[1]
  /\ hWork[1] > 0
  /\ hWork[1] < hT[1]
  /\ hHeld[2] = 1

\* The cycles a returned, uncancelled handler has performed.
Cycles(h) ==
  IF WorkIncrement(hT[h]) = 0 THEN 0 ELSE hWork[h] \div WorkIncrement(hT[h])

\* C8: with at least one thread and fair scheduling, every handler that has
\* entered its loop eventually returns, whatever its service time.
C8_HandlerReturns ==
  \A h \in Requests : (hPc[h] = "check") ~> (hPc[h] = "done")

\* C9: a handler that returns without having been cancelled has performed
\* exactly 100 cycles of T/100 each, T of simulated work in all.
C9_HundredSlices ==
  \A h \in Requests :
    (hPc[h] = "done" /\ ~hCancelled[h])
      => /\ Cycles(h) = Slices
         /\ hWork[h] = hT[h]

\* C10: after the clients have stopped emitting requests, the inflight gauge
\* of every server eventually is 0.
C10_InflightReturnsToZero ==
  clientStopped ~> (\A s \in Servers : inflight[s] = 0)

\* A client's request attempts, with the servers at rest.
InitQuiet ==
  /\ InitClient
  /\ InitServer(1)
  /\ threads = 1
  /\ InitNoSampler
  /\ InitNoStages
  /\ InitNoCtl

SpecClient == InitQuiet /\ [][NextClient]_vars

\* ------------------------------------------------------- client: claims

\* The attempt has incremented the total and has not returned.
InFlight(a) == aPc[a] \notin {"idle", "built", "done"}

ReachedTotal(a) == \E i \in 1..Len(aTrace[a]) : aTrace[a][i] = "total"

IsOutcomeCounter(ev) == ev \in {"successes", "rejected", "timeouts", "failures"}

\* The outcome counters attempt a has incremented, in order.
OutcomeOps(a) == SelectSeq(aTrace[a], IsOutcomeCounter)

\* success, rejected, failure without timeout, failure with timeout
OutcomeClasses ==
  {<<"successes">>, <<"rejected", "failures">>, <<"failures">>, <<"timeouts", "failures">>}

\* C1: every attempt that incremented the total and returned has recorded
\* exactly one outcome class, and total = successes + failures + the number of
\* attempts in flight; so with no attempt in flight total = successes + failures.
C1_ExactlyOneOutcome ==
  /\ \A a \in Attempts :
       (aPc[a] = "done" /\ ReachedTotal(a)) => OutcomeOps(a) \in OutcomeClasses
  /\ total = successes + failures + Cardinality({a \in Attempts : InFlight(a)})
  /\ (\A a \in Attempts : ~InFlight(a)) => total = successes + failures

\* Two attempts interleaved up to their results, both returned, one counted
\* as a success and one as a failure.
C1_Witness ==
  /\ \A a \in Attempts : aPc[a] = "done" /\ ReachedTotal(a)
  /\ successes >= 1
  /\ failures >= 1
  /\ total = MaxAttempts

\* C2: a response with a status code outside {200, 429, 500, 408, 503, 504} is
\* logged and counted as a generic failure (failures only), and the process
\* keeps running.
C2_UnknownStatusDoesNotCrash ==
  \A a \in Attempts :
    IsUnknownStatus(a) =>
      /\ ~exited
      /\ aPc[a] = "done" => OutcomeOps(a) = <<"failures">>

\* C11: whenever no attempt is between its response-time observation and the
\* counter increment that follows it, the histogram holds successes + timeouts
\* observations.
C11_ObservationsMatch ==
  (\A a \in Attempts : aPc[a] \notin {"incSuccesses", "incTimeouts"})
    => observations = successes + timeouts

\* Both attempts returned, one a success and one a timeout.
C11_Witness ==
  /\ \A a \in Attempts : aPc[a] = "done"
  /\ successes = 1
  /\ timeouts = 1
  /\ observations = 2

IsMetricOp(ev) == ev \in {"observe", "successes", "rejected", "timeouts", "failures"}

\* The observations and counter increments attempt a has performed, in order.
MetricOps(a) == SelectSeq(aTrace[a], IsMetricOp)

\* C12: an attempt that got a response has, once it returned, performed for
\* 200 one observation and successes +1; for 429 rejected +1 and failures +1;
\* for 408, 503 and 504 one observation, timeouts +1 and failures +1; for 500
\* failures +1; and nothing else.
C12_StatusMapping ==
  \A a \in Attempts :
    (aPc[a] = "done" /\ aErr[a] = "nil" /\ aStatus[a] # 0) =>
      /\ aStatus[a] = StatusOK => MetricOps(a) = <<"observe", "successes">>
      /\ aStatus[a] = StatusTooManyRequests => MetricOps(a) = <<"rejected", "failures">>
      /\ aStatus[a] \in {StatusRequestTimeout, StatusServiceUnavailable, StatusGatewayTimeout}
           => MetricOps(a) = <<"observe", "timeouts", "failures">>
      /\ aStatus[a] = StatusInternalServerError => MetricOps(a) = <<"failures">>

\* A 500 and a 504 have both been classified.
C12_Witness ==
  /\ aPc[1] = "done" /\ aStatus[1] = StatusInternalServerError
  /\ aPc[2] = "done" /\ aStatus[2] = StatusGatewayTimeout
  /\ failures = 2
  /\ timeouts = 1

\* C13: an attempt whose Do returned an error has, once it returned, performed
\* for a rejection rejected +1 and failures +1; for a timeout one observation,
\* timeouts +1 and failures +1; for any other error failures +1; and nothing
\* else, so never successes +1.
C13_ErrorMapping ==
  \A a \in Attempts :
    (aPc[a] = "done" /\ aErr[a] # "nil") =>
      /\ aErr[a] = "rejected" => MetricOps(a) = <<"rejected", "failures">>
      /\ aErr[a] = "timeout" => MetricOps(a) = <<"observe", "timeouts", "failures">>
      /\ aErr[a] = "other" => MetricOps(a) = <<"failures">>

\* A rejection and a timeout error have both been classified.
C13_Witness ==
  /\ aPc[1] = "done" /\ aErr[1] = "rejected"
  /\ aPc[2] = "done" /\ aErr[2] = "timeout"
  /\ rejected = 1
  /\ observations = 1

\* C14: in every attempt the start timestamp is taken first, the total is
\* incremented next and only once, the call of the policy pipeline follows,
\* and an observation of the response time comes after the call returned.
C14_AttemptOrder ==
  \A a \in Attempts :
    LET tr == aTrace[a] IN
      /\ Cardinality({i \in 1..Len(tr) : tr[i] = "total"}) <= 1
      /\ \A i \in 1..Len(tr) :
           /\ tr[i] = "total" => (i = 2 /\ tr[1] = "start")
           /\ tr[i] = "do" => (i = 3 /\ tr[2] = "total")
           /\ tr[i] = "observe" => (i = 4 /\ tr[3] = "do")
      /\ aPc[a] \in {"sending", "classify"} => total >= 1

\* An attempt has gone through all the events: a timeout with its observation.
C14_Witness ==
  \E a \in Attempts :
    aTrace[a] = <<"start", "total", "do", "observe", "timeouts", "failures">>

\* ============================================================ staged client

\* The service_times a stage can declare.
StageDistributions == {<<Entry(20, 1)>>, <<Entry(10, 1), Entry(20, 2)>>}

\* Stage (lines 46-51) as yaml.Unmarshal leaves it: rps is 0 and ServiceTimes
\* is nil when the YAML leaves them out; WeightSum is not in the YAML.
RawStages ==
  {[rps |-> r, serviceTimesNil |-> FALSE, serviceTimes |-> d, weightSum |-> 0] :
     r \in RpsValues, d \in StageDistributions}
  \cup
  {[rps |-> r, serviceTimesNil |-> TRUE, serviceTimes |-> <<>>, weightSum |-> 0] :
     r \in RpsValues}

\* client.stages of up to MaxStages stages.
RawConfigs == SeqsUpTo(RawStages, MaxStages)

\* parseConfig, lines 49-50, for the first stage: previousStage is nil.
FirstStage(stage) ==
  [stage EXCEPT !.weightSum = Sum(stage.serviceTimes)]

\* CarryOver with the WeightSum taken from the stage's own service times.
CarryOver_SumBeforeCarry(stage, prev) ==
  [rps |-> IF stage.rps = 0 THEN prev.rps ELSE stage.rps,
   serviceTimesNil |-> stage.serviceTimesNil /\ prev.serviceTimesNil,
   serviceTimes |-> IF stage.serviceTimesNil THEN prev.serviceTimes ELSE stage.serviceTimes,
   weightSum |-> Sum(stage.serviceTimes)]

\* parseConfig, lines 41-50, for a stage after the first: rps 0 and nil
\* service times are taken from previousStage, then WeightSum is the sum.
CarryOver(stage, prev) ==
  LET times == IF stage.serviceTimesNil THEN prev.serviceTimes ELSE stage.serviceTimes
  IN [rps |-> IF stage.rps = 0 THEN prev.rps ELSE stage.rps,
      serviceTimesNil |-> stage.serviceTimesNil /\ prev.serviceTimesNil,
      serviceTimes |-> times,
      weightSum |-> Sum(times)]

\* parseConfig, lines 38-52: the loop over the stages; done are the stages
\* already processed, its last one is previousStage.
RECURSIVE ParseStages(_, _)
ParseStages(raw, done) ==
  IF raw = <<>> THEN done
  ELSE ParseStages(Tail(raw),
         Append(done, IF done = <<>> THEN FirstStage(Head(raw))
                      ELSE CarryOver(Head(raw), done[Len(done)])))

\* parseConfig (lines 30-60) on a config without workloads.
ParseConfig ==
  /\ cPc = "idle"
  /\ stages' = ParseStages(rawStages, <<>>)
  /\ cPc' = "parsed"
  /\ UNCHANGED <<rawStages, cStage, elapsed, emitted>>

\* Client.Start, lines 160-166, and the entry of performStage, lines 191-196:
\* the next stage of the loop starts its timer and its ticker; the division
\* time.Second / time.Duration(stage.RPS) panics for rps 0.  After the last
\* stage Start logs and returns (wg.Done).
StartStage ==
  /\ cPc \in {"parsed", "between"}
  /\ IF cStage < Len(stages)
       THEN /\ cStage' = cStage + 1
            /\ cPc' = IF stages[cStage + 1].rps = 0 THEN "panicDivide" ELSE "stage"
       ELSE /\ cPc' = "returned"
            /\ UNCHANGED cStage
  /\ UNCHANGED <<rawStages, stages, elapsed, emitted>>

\* The timer of time.After(stage.Duration) fires (line 195).
DurationElapsed ==
  /\ cPc = "stage"
  /\ cStage \notin elapsed
  /\ elapsed' = elapsed \cup {cStage}
  /\ UNCHANGED <<rawStages, stages, cPc, cStage, emitted>>

\* performStage, lines 202-204: the select takes a tick; Random calls
\* rand.Intn(stage.WeightSum), which panics for a WeightSum of 0, and the
\* request with the service time looked up is emitted.
Tick ==
  /\ cPc = "stage"
  /\ emitted.n < MaxTicks
  /\ LET stage == stages[cStage] IN
       IF stage.weightSum <= 0
         THEN /\ cPc' = "panicIntn"
              /\ UNCHANGED emitted
         ELSE /\ \E r \in 0..(stage.weightSum - 1) :
                   emitted' = [n |-> emitted.n + 1, stage |-> cStage,
                               serviceTime |-> Weighted(stage.serviceTimes, r)]
              /\ UNCHANGED cPc
  /\ UNCHANGED <<rawStages, stages, cStage, elapsed>>

\* StageReturn that does not wait for the timer.
StageReturn_Early ==
  /\ cPc = "stage"
  /\ cPc' = "between"
  /\ UNCHANGED <<rawStages, stages, cStage, elapsed, emitted>>

\* performStage, lines 200-201: the select takes the timer's case, the
\* ticker is stopped and performStage returns.
StageReturn ==
  /\ cPc = "stage"
  /\ cStage \in elapsed
  /\ cPc' = "between"
  /\ UNCHANGED <<rawStages, stages, cStage, elapsed, emitted>>

InitStages ==
  /\ InitClient
  /\ InitServer(1)
  /\ threads = 1
  /\ InitNoSampler
  /\ rawStages \in RawConfigs
  /\ stages = <<>>
  /\ cPc = "idle"
  /\ cStage = 0
  /\ elapsed = {}
  /\ emitted = NoRequest
  /\ InitNoCtl

\* A staged run of one client, from the parse of its config on.
NextStages ==
  /\ \/ ParseConfig
     \/ StartStage
     \/ DurationElapsed
     \/ Tick
     \/ StageReturn
  /\ UNCHANGED <<clientVars, serverVars, samplerVars, ctlVars>>

SpecStages == InitStages /\ [][NextStages]_vars

\* The goroutine of Start is scheduled, time passes, and the select, which
\* chooses among its ready cases at random, takes the timer's case in the end.
FairStages ==
  /\ SpecStages
  /\ WF_vars(ParseConfig /\ UNCHANGED <<clientVars, serverVars, samplerVars, ctlVars>>)
  /\ WF_vars(StartStage /\ UNCHANGED <<clientVars, serverVars, samplerVars, ctlVars>>)
  /\ WF_vars(DurationElapsed /\ UNCHANGED <<clientVars, serverVars, samplerVars, ctlVars>>)
  /\ WF_vars(StageReturn /\ UNCHANGED <<clientVars, serverVars, samplerVars, ctlVars>>)

\* Lookups in each of the distributions.
InitSampler ==
  /\ InitClient
  /\ InitServer(1)
  /\ threads = 1
  /\ InitNoStages
  /\ wDist \in Distributions
  /\ wNext = 0
  /\ wHits = [t \in HitTimes |-> 0]
  /\ wLast = NoLookup
  /\ InitNoCtl

NextSampler ==
  /\ \/ SweepStep
     \/ LookupBeyond
  /\ UNCHANGED <<clientVars, serverVars, stageVars, ctlVars>>

SpecSampler == InitSampler /\ [][NextSampler]_vars

\* ----------------------------------------------------- sampler: claims

\* The total weight of the first i entries.
PrefixSum(w, i) == Sum(SubSeq(w, 1, i))

\* The first entry whose running weight prefix strictly exceeds r.
FirstExceeding(w, r) ==
  CHOOSE i \in 1..Len(w) :
    /\ PrefixSum(w, i) > r
    /\ \A j \in 1..(i - 1) : PrefixSum(w, j) <= r

\* The total weight of the entries with service time t.
WeightOfTime(w, t) ==
  LET HasTime(e) == e.serviceTime = t IN Sum(SelectSeq(w, HasTime))

\* C15: a lookup with a weight r in 0..W-1 returns the service time of the
\* first entry whose running weight prefix strictly exceeds r, and the sweep
\* over 0..W-1 returns each service time as often as its entries weigh (never
\* for weight 0) and never the 0 of a failed lookup.
C15_WeightedSampling ==
  /\ (wLast.weight >= 0 /\ wLast.weight < Sum(wDist))
       => wLast.serviceTime = wDist[FirstExceeding(wDist, wLast.weight)].serviceTime
  /\ (Sum(wDist) > 0 /\ wNext = Sum(wDist))
       => /\ \A t \in EntryTimes : wHits[t] = WeightOfTime(wDist, t)
          /\ wHits[0] = 0

\* The sweep over a distribution of two entries of different weights and
\* service times is complete.
C15_Witness ==
  /\ Len(wDist) = 2
  /\ wDist[1].weight = 1
  /\ wDist[2].weight = 2
  /\ wDist[1].serviceTime # wDist[2].serviceTime
  /\ wNext = 3
  /\ wHits[wDist[2].serviceTime] = 2

\* C16: a lookup with a weight that is not below the total weight yields a
\* zero duration together with the error "failed to compute service time".
C16_BeyondTotalIsError ==
  wLast.weight >= Sum(wDist) =>
    /\ wLast.serviceTime = 0
    /\ wLast.err = "failed to compute service time"

\* ------------------------------------------------ staged client: claims

\* C17: the sampler is never invoked with a weight sum of 0: no tick of a
\* stage the client runs calls Random with WeightSum = 0.
C17_SamplerNeverGetsZeroSum == cPc # "panicIntn"

\* C18: a stage whose rps is 0 is disabled: entering it does not fail, and no
\* request is emitted for it.
C18_ZeroRpsStageIsDisabled ==
  /\ cPc # "panicDivide"
  /\ emitted.n > 0 => stages[emitted.stage].rps # 0

\* The stages before i that set their rps, and those that set service times.
SetRps(i) == {j \in 1..(i - 1) : rawStages[j].rps # 0}

SetTimes(i) == {j \in 1..(i - 1) : ~rawStages[j].serviceTimesNil}

Latest(S) == CHOOSE j \in S : \A k \in S : k <= j

\* The service times in effect in stage i: its own, or those of the nearest
\* preceding stage that set them, or none.
EffectiveTimes(i) ==
  IF ~rawStages[i].serviceTimesNil THEN rawStages[i].serviceTimes
  ELSE IF SetTimes(i) # {} THEN rawStages[Latest(SetTimes(i))].serviceTimes
  ELSE <<>>

StagesInOrder ==
  /\ cStage <= Len(stages)
  /\ \A i \in elapsed : i <= cStage
  /\ \A i \in 1..(cStage - 1) : i \in elapsed
  /\ emitted.n > 0 =>
       /\ emitted.stage <= cStage
       /\ \A i \in 1..(emitted.stage - 1) : i \in elapsed
       /\ \E e \in 1..Len(stages[emitted.stage].serviceTimes) :
            stages[emitted.stage].serviceTimes[e].serviceTime = emitted.serviceTime

\* The last stage's duration has elapsed.
LastStageElapsed == cPc = "stage" /\ cStage = Len(stages) /\ cStage \in elapsed

\* C20: the stages are executed in declared order, one at a time, no request
\* of a later stage is emitted before the durations of the earlier stages
\* have elapsed, after the last stage's duration Start returns, and once it
\* has returned no request is emitted.
C20_StagesInOrderThenStop ==
  /\ []StagesInOrder
  /\ [][cStage' \in {cStage, cStage + 1}]_vars
  /\ [][cPc = "returned" => (cPc' = "returned" /\ emitted' = emitted)]_vars
  /\ LastStageElapsed ~> (cPc = "returned")

\* The same for the runs in which no stage panics.
StagesInOrderUnlessPanic ==
  /\ []StagesInOrder
  /\ [][cStage' \in {cStage, cStage + 1}]_vars
  /\ [][cPc = "returned" => (cPc' = "returned" /\ emitted' = emitted)]_vars
  /\ LastStageElapsed ~> (cPc \in {"returned", "panicIntn"})

\* ================================================================= policies

\* time.Second in nanoseconds, the unit of a time.Duration.
Second == 1000000000

\* Policy entries of one list.
MaxPolicies == 2

\* The timeout of a policy entry, in nanoseconds: 0 when the entry has no
\* timeout key, half a second, one and a half seconds.
Timeouts == {0, 500000000, 1500000000}

\* policy.Config (config.go lines 7-17): the timeout and, for the pointers to
\* the limiter configs, whether the entry sets them.
PolicyConfig(t, r, b) == [timeout |-> t, ratelimiter |-> r, bulkhead |-> b]

PolicyConfigs ==
  {PolicyConfig(t, r, b) : t \in Timeouts, r \in BOOLEAN, b \in BOOLEAN}

\* policy.Configs of up to MaxPolicies entries.
PolicyLists == SeqsUpTo(PolicyConfigs, MaxPolicies)

\* The server lists tried: none, and one timeout shorter than every client's.
ServerPolicyLists == {<<>>, <<PolicyConfig(500000000, FALSE, FALSE)>>}

\* The nil failsafe.Policy ToPolicy returns for an entry that sets nothing.
NilPolicy == [kind |-> "nil", timeout |-> 0]

Policy(k, t) == [kind |-> k, timeout |-> t]

\* Config.ToPolicy (lines 226-308): the first field set decides the policy.
ToPolicy(c) ==
  IF c.timeout # 0
    THEN [policy |-> Policy("timeout", c.timeout), timeOut |-> c.timeout]
  ELSE IF c.ratelimiter
    THEN [policy |-> Policy("ratelimiter", 0), timeOut |-> 0]
  ELSE IF c.bulkhead
    THEN [policy |-> Policy("bulkhead", 0), timeOut |-> 0]
  ELSE [policy |-> NilPolicy, timeOut |-> 0]

Min(a, b) == IF a <= b THEN a ELSE b

\* ToExecutor keeps the first timeout it meets (mutation of lines 315-321).
NextMinTimeout_KeepsFirst(minTimeout, policyTimeout) ==
  IF policyTimeout # 0 /\ minTimeout = 0 THEN policyTimeout ELSE minTimeout

\* Configs.ToExecutor, lines 315-321: minTimeout after one more entry.
NextMinTimeout(minTimeout, policyTimeout) ==
  IF policyTimeout # 0
    THEN IF minTimeout = 0 THEN policyTimeout ELSE Min(minTimeout, policyTimeout)
    ELSE minTimeout

\* ToExecutor puts each policy in front (mutation of line 322).
AppendPolicy_Prepends(policies, policy) == <<policy>> \o policies

\* Configs.ToExecutor, line 322: policies = append(policies, policy).
AppendPolicy(policies, policy) == Append(policies, policy)

RECURSIVE ToExecutorFrom(_, _, _)
\* The loop of Configs.ToExecutor (lines 313-323) from entry i on.
ToExecutorFrom(c, i, acc) ==
  IF i > Len(c) THEN acc
  ELSE LET r == ToPolicy(c[i])
       IN ToExecutorFrom(c, i + 1,
            [policies |-> AppendPolicy(acc.policies, r.policy),
             minTimeout |-> NextMinTimeout(acc.minTimeout, r.timeOut)])

\* Configs.ToExecutor (lines 310-337): the policies handed to
\* failsafe.NewExecutor and the second return value.
ToExecutor(c) == ToExecutorFrom(c, 1, [policies |-> <<>>, minTimeout |-> 0])

\* Duration.Seconds: the whole seconds and the nanoseconds left that the
\* float64 is the sum of.
Seconds(d) == [sec |-> d \div Second, nsec |-> d % Second]

\* startClientAndServer (main.go lines 81-88): the executors are built, the
\* server list's timeout is dropped, the client list's is published.
BuildExecutors ==
  /\ xPc = "idle"
  /\ LET server == ToExecutor(polServer)
         client == ToExecutor(polClient)
     IN /\ polExecutor' = client.policies
        /\ gMinTimeout' = Seconds(client.minTimeout)
  /\ xPc' = "built"
  /\ UNCHANGED <<polServer, polClient, xAt, xAdmitted, xRejectedBy>>

\* The policies that refuse a request before they call what they wrap
\* (ratelimiter.ErrExceeded, bulkhead.ErrFull).
RejectingKinds == {"ratelimiter", "bulkhead"}

\* httpClient.Do (client.go line 227) enters the executor of NewClient: the
\* first policy of the list is the outermost.
EnterExecutor ==
  /\ xPc = "built"
  /\ xPc' = "running"
  /\ xAt' = 1
  /\ UNCHANGED <<polServer, polClient, polExecutor, gMinTimeout, xAdmitted, xRejectedBy>>

\* The policy reached calls the next one.
PolicyAdmits ==
  /\ xPc = "running"
  /\ xAt <= Len(polExecutor)
  /\ polExecutor[xAt] # NilPolicy
  /\ xAdmitted' = Append(xAdmitted, polExecutor[xAt])
  /\ xAt' = xAt + 1
  /\ UNCHANGED <<polServer, polClient, polExecutor, gMinTimeout, xPc, xRejectedBy>>

\* The policy reached refuses the request.
PolicyRejects ==
  /\ xPc = "running"
  /\ xAt <= Len(polExecutor)
  /\ polExecutor[xAt].kind \in RejectingKinds
  /\ xRejectedBy' = xAt
  /\ xPc' = "rejected"
  /\ UNCHANGED <<polServer, polClient, polExecutor, gMinTimeout, xAt, xAdmitted>>

\* The policy reached is nil: the call through it panics.
PolicyIsNil ==
  /\ xPc = "running"
  /\ xAt <= Len(polExecutor)
  /\ polExecutor[xAt] = NilPolicy
  /\ xPc' = "panic"
  /\ UNCHANGED <<polServer, polClient, polExecutor, gMinTimeout, xAt, xAdmitted, xRejectedBy>>

\* Every policy has admitted the request: the round trip is made.
InvokeRequest ==
  /\ xPc = "running"
  /\ xAt = Len(polExecutor) + 1
  /\ xPc' = "invoked"
  /\ UNCHANGED <<polServer, polClient, polExecutor, gMinTimeout, xAt, xAdmitted, xRejectedBy>>

InitPolicies ==
  /\ InitClient
  /\ InitServer(1)
  /\ threads = 1
  /\ InitNoSampler
  /\ InitNoStages
  /\ InitNoWorkloads
  /\ InitNoRunner
  /\ InitNoExt
  /\ polServer \in ServerPolicyLists
  /\ polClient \in PolicyLists
  /\ polExecutor = <<>>
  /\ gMinTimeout = NotSet
  /\ xPc = "idle"
  /\ xAt = 0
  /\ xAdmitted = <<>>
  /\ xRejectedBy = 0

\* One strategy's executors are built and one request goes through the
\* client's.
NextPolicies ==
  /\ \/ BuildExecutors
     \/ EnterExecutor
     \/ PolicyAdmits
     \/ PolicyRejects
     \/ PolicyIsNil
     \/ InvokeRequest
  /\ UNCHANGED <<clientVars, serverVars, loadVars, workloadVars, runnerVars, extVars>>

SpecPolicies == InitPolicies /\ [][NextPolicies]_vars

\* ------------------------------------------------------- policies: claims

\* C29: the executor holds one policy per entry of the client's list, in the
\* declared order; the policies that admitted a request are those of the
\* entries before the one it has reached, in order; the policy that rejects
\* is the one after them, and the request function is invoked only when every
\* policy has admitted and none has rejected.
C29_DeclaredOrder ==
  xPc # "idle" =>
    /\ Len(polExecutor) = Len(polClient)
    /\ \A i \in 1..Len(polClient) : polExecutor[i] = ToPolicy(polClient[i]).policy
    /\ Len(xAdmitted) <= Len(polClient)
    /\ \A i \in 1..Len(xAdmitted) : xAdmitted[i] = ToPolicy(polClient[i]).policy
    /\ xPc = "rejected" =>
         /\ xRejectedBy = Len(xAdmitted) + 1
         /\ ToPolicy(polClient[xRejectedBy]).policy.kind \in RejectingKinds
    /\ xPc = "invoked" => Len(xAdmitted) = Len(polClient) /\ xRejectedBy = 0

\* The second of two different policies rejects a request the first admitted.
C29_Witness ==
  /\ xPc = "rejected"
  /\ xRejectedBy = 2
  /\ ToPolicy(polClient[1]).policy # ToPolicy(polClient[2]).policy

\* The timeouts of the timeout policies of a list.
TimeoutsOf(c) == {c[i].timeout : i \in 1..Len(c)} \ {0}

SetMin(S) == CHOOSE x \in S : \A y \in S : x <= y

\* C30: once published, the min_timeout gauge is the seconds of the smallest
\* timeout among the client list's timeout policies, wherever it stands in
\* the list, and 0 when the list has none.
C30_MinTimeoutGauge ==
  xPc # "idle" =>
    gMinTimeout =
      Seconds(IF TimeoutsOf(polClient) = {} THEN 0 ELSE SetMin(TimeoutsOf(polClient)))

\* The smallest timeout is not the first of the list, and the server's list
\* has a smaller one still.
C30_Witness ==
  /\ xPc # "idle"
  /\ Len(polClient) = 2
  /\ polClient[2].timeout # 0
  /\ polClient[1].timeout > polClient[2].timeout
  /\ polServer # <<>>
  /\ gMinTimeout = Seconds(polClient[2].timeout)

\* ========================================================== workload client

\* The number of workloads of set s: set 0 is the config file's, set q the one
\* POST q installs.
SetSize(s) == IF s % 2 = 0 THEN 2 ELSE 1

\* A performWorkload goroutine: its context, and its workload by the set and
\* the index in the set.
Ticker(ctx, s, w) == [ctx |-> ctx, set |-> s, w |-> w]

\* sendRequest takes the context of the ticker (mutation of line 218).
RequestContext_Inherits(ctx) == ctx

\* sendRequest, line 218: the request's context derives from
\* context.Background() (0: no workload context).
RequestContext(ctx) == 0

\* Start, lines 147-150: a new context; its cancel function is stored under
\* c.mtx.Lock().
StartStoreCancel ==
  /\ ~exited
  /\ wPc = "top"
  /\ cMtx = "free"
  /\ wCtx' = wCtx + 1
  /\ cancelWorkloads' = wCtx + 1
  /\ wPc' = "stored"
  /\ UNCHANGED <<cfgWorkloads, ctxDone, cMtx, wRange, wIdx, tickers, wEmitted,
                 wLaunch, qPc, qStatus>>

\* Start, lines 151-152: c.mtx.RLock() and the evaluation of the range
\* expression c.config.Workloads.
StartRLock ==
  /\ ~exited
  /\ wPc = "stored"
  /\ cMtx = "free"
  /\ cMtx' = "read"
  /\ wRange' = cfgWorkloads
  /\ wIdx' = 1
  /\ wPc' = "launch"
  /\ UNCHANGED <<cfgWorkloads, cancelWorkloads, ctxDone, wCtx, tickers, wEmitted,
                 wLaunch, qPc, qStatus>>

\* Start, lines 152-154: go c.performWorkload(ctx, workload) for the next
\* workload of the range.
StartLaunch ==
  /\ ~exited
  /\ wPc = "launch"
  /\ wIdx <= SetSize(wRange)
  /\ tickers' = tickers \cup {Ticker(wCtx, wRange, wIdx)}
  /\ wIdx' = wIdx + 1
  /\ UNCHANGED <<cfgWorkloads, cancelWorkloads, ctxDone, cMtx, wPc, wCtx, wRange,
                 wEmitted, wLaunch, qPc, qStatus>>

\* Start, line 155: c.mtx.RUnlock() after the range.
StartRUnlock ==
  /\ ~exited
  /\ wPc = "launch"
  /\ wIdx > SetSize(wRange)
  /\ cMtx' = "free"
  /\ wPc' = "wait"
  /\ UNCHANGED <<cfgWorkloads, cancelWorkloads, ctxDone, wCtx, wRange, wIdx, tickers,
                 wEmitted, wLaunch, qPc, qStatus>>

\* Start, lines 156-159: the select returns once ctx is done, and the loop
\* starts over.
StartWake ==
  /\ ~exited
  /\ wPc = "wait"
  /\ wCtx \in ctxDone
  /\ wPc' = "top"
  /\ UNCHANGED <<cfgWorkloads, cancelWorkloads, ctxDone, cMtx, wCtx, wRange, wIdx,
                 tickers, wEmitted, wLaunch, qPc, qStatus>>

ClientStart ==
  \/ StartStoreCancel
  \/ StartRLock
  \/ StartLaunch
  \/ StartRUnlock
  \/ StartWake

\* performWorkload, lines 182-184: the select takes the tick, which it can do
\* whether or not ctx is done, and launches sendRequest with the workload's
\* parameters.  The first request launched is the attempt followed.
WorkloadTick(t) ==
  /\ ~exited
  /\ t \in tickers
  /\ LET launch == [ctx |-> RequestContext(t.ctx), set |-> t.set, w |-> t.w,
                    installed |-> cfgWorkloads, overtaken |-> FALSE]
     IN /\ wEmitted' = launch
        /\ wLaunch' = IF wLaunch = NotLaunched THEN launch ELSE wLaunch
  /\ UNCHANGED <<cfgWorkloads, cancelWorkloads, ctxDone, cMtx, wPc, wCtx, wRange,
                 wIdx, tickers, qPc, qStatus>>

\* performWorkload, lines 180-181: the select takes ctx.Done() and the
\* goroutine returns.
WorkloadExit(t) ==
  /\ ~exited
  /\ t \in tickers
  /\ t.ctx \in ctxDone
  /\ tickers' = tickers \ {t}
  /\ UNCHANGED <<cfgWorkloads, cancelWorkloads, ctxDone, cMtx, wPc, wCtx, wRange,
                 wIdx, wEmitted, wLaunch, qPc, qStatus>>

PerformWorkload(t) == WorkloadTick(t) \/ WorkloadExit(t)

\* The attempt followed is in sendRequest.
Overtaken == wLaunch # NotLaunched /\ aPc[1] # "done"

\* UpdateWorkloads (lines 270-275) installing set q: under c.mtx.Lock() the
\* workloads are replaced and c.cancelWorkloads is called.  Called before
\* Start has stored a cancel function, the call of the nil function panics
\* and c.mtx stays locked.
UpdateWorkloads(q) ==
  /\ cMtx = "free"
  /\ cfgWorkloads' = q
  /\ IF cancelWorkloads = 0
       THEN /\ cMtx' = "dead"
            /\ UNCHANGED ctxDone
       ELSE /\ ctxDone' = ctxDone \cup {cancelWorkloads}
            /\ UNCHANGED cMtx
  /\ wLaunch' = IF Overtaken THEN [wLaunch EXCEPT !.overtaken = TRUE] ELSE wLaunch

\* updateClients replaces the workloads though the body did not parse
\* (mutation of line 89).
AppliesUpdate_EvenUnparsed(kind) == kind # "notPost"

\* The handler and updateClients (lines 71 and 89): the update is applied to
\* a POST whose body parseConfigUpdate has parsed.
AppliesUpdate(kind) == kind = "post"

\* The /client/workloads handler (config server, lines 70-76),
\* parseConfigUpdate (lines 108-121) and updateClients (lines 87-96): 405
\* for another method, 400 for a body that does not parse, otherwise the
\* client's workloads are replaced and the reply is 200 (no reply when
\* UpdateWorkloads panics).  The POSTs are numbered in their order of arrival.
PostClient(q) ==
  /\ ~exited
  /\ qPc[q] = "idle"
  /\ \A r \in ClientPosts : r < q => qPc[r] # "idle"
  /\ \E kind \in {"post", "badBody", "notPost"} :
       /\ IF AppliesUpdate(kind)
            THEN UpdateWorkloads(q)
            ELSE UNCHANGED <<cfgWorkloads, ctxDone, cMtx, wLaunch>>
       /\ IF kind = "post" /\ cancelWorkloads = 0
            THEN /\ qPc' = [qPc EXCEPT ![q] = "panic"]
                 /\ UNCHANGED qStatus
            ELSE /\ qPc' = [qPc EXCEPT ![q] = "done"]
                 /\ qStatus' = [qStatus EXCEPT ![q] =
                      IF kind = "notPost" THEN StatusMethodNotAllowed
                      ELSE IF kind = "badBody" THEN StatusBadRequest
                      ELSE StatusOK]
  /\ UNCHANGED <<cancelWorkloads, wPc, wCtx, wRange, wIdx, tickers, wEmitted>>

\* The contexts Start can have created: one more than the cancellations.
Contexts == 1..(MaxUpdates + 1)

Tickers == {Ticker(c, s, w) : c \in Contexts, s \in 0..MaxUpdates, w \in 1..2}

\* A client built with the workloads of the config file; Start has not run.
InitClientWorkloads ==
  /\ cfgWorkloads = 0
  /\ cancelWorkloads = 0
  /\ ctxDone = {}
  /\ cMtx = "free"
  /\ wPc = "top"
  /\ wCtx = 0
  /\ wRange = 0
  /\ wIdx = 0
  /\ tickers = {}
  /\ wEmitted = NotLaunched
  /\ wLaunch = NotLaunched
  /\ qPc = [q \in ClientPosts |-> "idle"]
  /\ qStatus = [q \in ClientPosts |-> 0]

InitWorkloads ==
  /\ InitClient
  /\ InitServer(1)
  /\ threads = 1
  /\ InitNoSampler
  /\ InitNoStages
  /\ InitNoPolicies
  /\ InitNoRunner
  /\ InitNoExt
  /\ InitClientWorkloads

\* A client in workload mode and the POSTs that replace its workloads.
NextWorkloads ==
  /\ \/ ClientStart
     \/ \E t \in Tickers : PerformWorkload(t)
     \/ \E q \in ClientPosts : PostClient(q)
  /\ UNCHANGED <<clientVars, serverVars, loadVars, policyVars, runnerVars, extVars>>

SpecWorkloads == InitWorkloads /\ [][NextWorkloads]_vars

\* Start's goroutine runs when it can, and a ticker whose context is done
\* leaves its loop: its select picks among the ready cases at random.
FairWorkloads ==
  /\ SpecWorkloads
  /\ WF_vars(ClientStart /\ UNCHANGED <<clientVars, serverVars, loadVars, policyVars, runnerVars, extVars>>)
  /\ \A t \in Tickers :
       WF_vars(WorkloadExit(t) /\ UNCHANGED <<clientVars, serverVars, loadVars, policyVars, runnerVars, extVars>>)

\* A client in workload mode, one POST that replaces its workloads, and the
\* first request its tickers launch, followed through sendRequest.
NextInFlight ==
  \/ /\ \/ ClientStart
        \/ \E t \in Tickers : PerformWorkload(t)
        \/ PostClient(1)
     /\ UNCHANGED <<clientVars, serverVars, loadVars, policyVars, runnerVars, extVars>>
  \/ /\ wLaunch # NotLaunched
     /\ SendRequest(1)
     /\ UNCHANGED <<serverVars, loadVars, ctlVars>>

SpecInFlight == InitWorkloads /\ [][NextInFlight]_vars

\* One server and one client in workload mode behind the control plane: a
\* request to /server and two requests to /client/workloads.
InitControl ==
  /\ InitClient
  /\ InitServer(1)
  /\ InitNoSampler
  /\ InitNoStages
  /\ InitNoPolicies
  /\ InitNoRunner
  /\ InitNoExt
  /\ InitClientWorkloads

NextControl ==
  \/ /\ \/ ServerStart(1)
        \/ UpdateServers(1)
     /\ UNCHANGED <<clientVars, loadVars, ctlVars>>
  \/ /\ \/ ClientStart
        \/ \E t \in Tickers : WorkloadExit(t)
        \/ \E q \in {1, 2} : PostClient(q)
     /\ UNCHANGED <<clientVars, serverVars, loadVars, policyVars, runnerVars, extVars>>

SpecControl == InitControl /\ [][NextControl]_vars

\* -------------------------------------------------- workload client: claims

\* The tickers running are those of the workloads installed, one each, under
\* the context of Start's current iteration, which is not cancelled.
Settled ==
  /\ wCtx \notin ctxDone
  /\ tickers = {Ticker(wCtx, cfgWorkloads, w) : w \in 1..SetSize(cfgWorkloads)}

\* C21: whatever the interleaving of the UpdateWorkloads calls with the
\* client, from some point on every ticker of a superseded set has exited and
\* exactly one ticker per workload of the set installed last is running.
C21_TickersSettle == <>[]Settled

\* The same, unless UpdateWorkloads was called before Start stored its first
\* cancel function.
TickersSettleOnceStarted == <>(cMtx = "dead") \/ <>[]Settled

\* C22: no request is launched with the parameters of a workload of a set
\* that an UpdateWorkloads call which has returned replaced.
C22_NoStaleLaunch == wEmitted # NotLaunched => wEmitted.set = wEmitted.installed

\* C23: an attempt that was in sendRequest when UpdateWorkloads ran has a
\* context no workload replacement cancels, can take its next step as long as
\* the process runs, and once returned has recorded exactly one outcome.
C23_InFlightSurvive ==
  wLaunch.overtaken =>
    /\ wLaunch.ctx \notin ctxDone
    /\ (aPc[1] # "done" /\ ~exited) => ENABLED SendRequest(1)
    /\ (aPc[1] = "done" /\ ReachedTotal(1)) => OutcomeOps(1) \in OutcomeClasses

\* An attempt launched for a workload of the config file's set was in flight
\* when POST 1 replaced the set, and has returned as a success.
C23_Witness ==
  /\ wLaunch.overtaken
  /\ wLaunch.set = 0
  /\ cfgWorkloads = 1
  /\ qStatus[1] = StatusOK
  /\ aPc[1] = "done"
  /\ OutcomeOps(1) = <<"successes">>

\* What the control plane can change: the servers' thread count and permits,
\* the client's workloads and their contexts.
Controlled ==
  <<threads, avail, gThreads, mtx, cfgWorkloads, cancelWorkloads, ctxDone, cMtx, tickers>>

\* The step writes the reply of a request that was turned down.
Refuses ==
  \/ \E p \in Posts :
       pStatus[p] = 0 /\ pStatus'[p] \in {StatusBadRequest, StatusMethodNotAllowed}
  \/ \E q \in ClientPosts :
       qStatus[q] = 0 /\ qStatus'[q] \in {StatusBadRequest, StatusMethodNotAllowed}

\* C24: a step that answers 400 or 405 changes no server's thread count or
\* permits and no client's workloads; the thread count changes only inside
\* the UpdateConfig of a parsed POST /server, the workloads only in the step
\* of a POST /client/workloads that is not answered 400 or 405; and a reply
\* of 200 is written with the posted thread count, or the posted workloads
\* and the cancellation of the context, in place.
C24_OnlyParsedPostsMutate ==
  [][ /\ Refuses => UNCHANGED Controlled
      /\ threads' # threads => \E p \in Posts : pPc[p] = "write" /\ pN[p] = threads'
      /\ cfgWorkloads' # cfgWorkloads =>
           \E q \in ClientPosts :
             /\ qPc[q] = "idle" /\ qPc'[q] # "idle"
             /\ qStatus'[q] \in {0, StatusOK}
             /\ cfgWorkloads' = q
      /\ \A p \in Posts :
           (pStatus[p] = 0 /\ pStatus'[p] = StatusOK) =>
             pN[p] \in ThreadCounts /\ threads = pN[p] /\ gThreads' = pN[p]
      /\ \A q \in ClientPosts :
           (qStatus[q] = 0 /\ qStatus'[q] = StatusOK) =>
             cfgWorkloads' = q /\ cancelWorkloads \in ctxDone'
    ]_vars

\* A POST /server and a POST /client/workloads have been turned down, one
\* with 400 and one with 405, and a POST /client/workloads has been applied,
\* all after the server and the client had started.
C24_Witness ==
  /\ pStatus[1] = StatusBadRequest
  /\ qStatus[1] = StatusMethodNotAllowed
  /\ qStatus[2] = StatusOK
  /\ cfgWorkloads = 2
  /\ sPc[1] = "serving"
  /\ tickers # {}

\* C39: UpdateWorkloads never calls an unset cancel function: no handler of
\* POST /client/workloads ends in the panic of a call of the nil
\* c.cancelWorkloads, however its call interleaves with Client.Start.
C39_CancelSetBeforeCalled == \A q \in ClientPosts : qPc[q] # "panic"

\* Once Start has stored a cancel function no call of UpdateWorkloads panics.
NoPanicOnceStored ==
  [][cancelWorkloads # 0 => \A q \in ClientPosts : qPc'[q] = "panic" => qPc[q] = "panic"]_vars

\* ============================================================ strategy runner

\* Stages of the client config of a run.
MaxRunStages == 2

\* The last second of the clock.
MaxTime == 8

\* The duration every stage declares, in seconds.
StageSeconds == 1

\* main's pause between two strategies (main.go line 49), in seconds.
PauseSeconds == 5

\* 24 * time.Hour (parseConfig, line 56), in seconds.
Day == 86400

\* parseConfig, line 49: Client.MaxDuration is the sum of the stage durations.
MaxDuration == rStages * StageSeconds

\* parseConfig, lines 53-57: Server.Duration.
ServerDuration == IF MaxDuration # 0 THEN MaxDuration ELSE Day

\* A second passes.  Nothing forces a timer that is due to fire at once.
Advance ==
  /\ now < MaxTime
  /\ now' = now + 1
  /\ UNCHANGED <<rWorkloads, rStages, rPc, rI, rWg, rWake, rCreatedAt, rWaitAt, kPc,
                 kStage, kDeadline, vPc, vDeadline, rAttempt>>

\* main, lines 47-50: the head of the loop over the strategies and, from the
\* second strategy on, the start of time.Sleep(5 * time.Second).
RunnerLoop ==
  /\ rPc = "loop"
  /\ IF rI > MaxStrategies
       THEN rPc' = "end" /\ UNCHANGED rWake
       ELSE IF rI > 1
         THEN rPc' = "pause" /\ rWake' = now + PauseSeconds
         ELSE rPc' = "start" /\ UNCHANGED rWake
  /\ UNCHANGED <<now, rWorkloads, rStages, rI, rWg, rCreatedAt, rWaitAt, kPc, kStage,
                 kDeadline, vPc, vDeadline, rAttempt>>

\* main, line 49: time.Sleep returns.
RunnerPauseElapsed ==
  /\ rPc = "pause"
  /\ now >= rWake
  /\ rPc' = "start"
  /\ UNCHANGED <<now, rWorkloads, rStages, rI, rWg, rWake, rCreatedAt, rWaitAt, kPc,
                 kStage, kDeadline, vPc, vDeadline, rAttempt>>

\* startClientAndServer (lines 75-93): the server and the client of strategy
\* i are built, and each Start is launched after wg.Add(1).
StartClientAndServer(i) ==
  /\ rCreatedAt' = [rCreatedAt EXCEPT ![i] = now]
  /\ rWg' = rWg + 2
  /\ vPc' = [vPc EXCEPT ![i] = "started"]
  /\ kPc' = [kPc EXCEPT ![i] = "started"]

\* main, lines 51-53, in sequential mode.
RunnerStart ==
  /\ rPc = "start"
  /\ StartClientAndServer(rI)
  /\ rPc' = "wait"
  /\ UNCHANGED <<now, rWorkloads, rStages, rI, rWake, rWaitAt, kStage, kDeadline,
                 vDeadline, rAttempt>>

\* wg.Wait returns at once (mutation of line 54).
WaitReturns_AtOnce == TRUE

\* wg.Wait returns when the counter is 0.
WaitReturns == rWg = 0

\* main, lines 54-55: wg.Wait() returns, metrics.Shutdown(), and the loop
\* goes on with the next strategy.
RunnerWait ==
  /\ rPc = "wait"
  /\ WaitReturns
  /\ rWaitAt' = [rWaitAt EXCEPT ![rI] = now]
  /\ rI' = rI + 1
  /\ rPc' = "loop"
  /\ UNCHANGED <<now, rWorkloads, rStages, rWg, rWake, rCreatedAt, kPc, kStage,
                 kDeadline, vPc, vDeadline, rAttempt>>

\* main, lines 61-65, in parallel mode: the loop starts the pair of the next
\* strategy without waiting.
RunnerStartAll ==
  /\ rPc = "startAll"
  /\ rI <= MaxStrategies
  /\ StartClientAndServer(rI)
  /\ rI' = rI + 1
  /\ UNCHANGED <<now, rWorkloads, rStages, rPc, rWake, rWaitAt, kStage, kDeadline,
                 vDeadline, rAttempt>>

\* main, lines 67-69: the config server is started and main blocks in
\* wg.Wait().
RunnerConfigServer ==
  /\ rPc = "startAll"
  /\ rI > MaxStrategies
  /\ rPc' = "wait"
  /\ UNCHANGED <<now, rWorkloads, rStages, rI, rWg, rWake, rCreatedAt, rWaitAt, kPc,
                 kStage, kDeadline, vPc, vDeadline, rAttempt>>

\* Server.Start, lines 53-70: the workers are prepared, Serve is launched and
\* time.Sleep(s.config.Duration) begins.
ServerServe(i) ==
  /\ vPc[i] = "started"
  /\ vPc' = [vPc EXCEPT ![i] = "serving"]
  /\ vDeadline' = [vDeadline EXCEPT ![i] = now + ServerDuration]
  /\ UNCHANGED <<now, rWorkloads, rStages, rPc, rI, rWg, rWake, rCreatedAt, rWaitAt,
                 kPc, kStage, kDeadline, rAttempt>>

\* Server.Start, lines 70-72: the sleep is over and server.Shutdown closes
\* the listener.
ServerStop(i) ==
  /\ vPc[i] = "serving"
  /\ now >= vDeadline[i]
  /\ vPc' = [vPc EXCEPT ![i] = "stopping"]
  /\ UNCHANGED <<now, rWorkloads, rStages, rPc, rI, rWg, rWake, rCreatedAt, rWaitAt,
                 kPc, kStage, kDeadline, vDeadline, rAttempt>>

\* Server.Start, lines 72-74: Shutdown returns once no connection is active,
\* and Start returns (wg.Done).
ServerReturn(i) ==
  /\ vPc[i] = "stopping"
  /\ rAttempt[i] # "active"
  /\ vPc' = [vPc EXCEPT ![i] = "returned"]
  /\ rWg' = rWg - 1
  /\ UNCHANGED <<now, rWorkloads, rStages, rPc, rI, rWake, rCreatedAt, rWaitAt, kPc,
                 kStage, kDeadline, vDeadline, rAttempt>>

\* Client.Start, line 145: c.config.Workloads != nil, which holds for a list
\* with workloads in it and for an empty one.
ClientTakesWorkloads == rWorkloads \/ rEmpty

\* Client.Start, lines 160-166, and performStage, lines 191-196: the next
\* stage starts its timer; after the last one Start returns (wg.Done).
ClientNextStage(i) ==
  /\ ~ClientTakesWorkloads
  /\ kPc[i] \in {"started", "between"}
  /\ IF kStage[i] < rStages
       THEN /\ kStage' = [kStage EXCEPT ![i] = @ + 1]
            /\ kDeadline' = [kDeadline EXCEPT ![i] = now + StageSeconds]
            /\ kPc' = [kPc EXCEPT ![i] = "stage"]
            /\ UNCHANGED rWg
       ELSE /\ kPc' = [kPc EXCEPT ![i] = "returned"]
            /\ rWg' = rWg - 1
            /\ UNCHANGED <<kStage, kDeadline>>
  /\ UNCHANGED <<now, rWorkloads, rStages, rPc, rI, rWake, rCreatedAt, rWaitAt, vPc,
                 vDeadline, rAttempt>>

\* performStage, lines 200-201: the select takes the timer's case.
ClientStageReturn(i) ==
  /\ kPc[i] = "stage"
  /\ now >= kDeadline[i]
  /\ kPc' = [kPc EXCEPT ![i] = "between"]
  /\ UNCHANGED <<now, rWorkloads, rStages, rPc, rI, rWg, rWake, rCreatedAt, rWaitAt,
                 kStage, kDeadline, vPc, vDeadline, rAttempt>>

\* Client.Start, lines 145-159: with a workload list that is not nil the loop
\* over the contexts is entered; it has no exit.
ClientWorkloads(i) ==
  /\ ClientTakesWorkloads
  /\ kPc[i] = "started"
  /\ kPc' = [kPc EXCEPT ![i] = "workloads"]
  /\ UNCHANGED <<now, rWorkloads, rStages, rPc, rI, rWg, rWake, rCreatedAt, rWaitAt,
                 kStage, kDeadline, vPc, vDeadline, rAttempt>>

\* performStage, lines 202-204, and performWorkload, lines 182-184: the
\* select takes a tick and go c.sendRequest(...) launches an attempt; an
\* empty workload list has no ticker.
ClientTick(i) ==
  /\ kPc[i] = "stage" \/ (kPc[i] = "workloads" /\ rWorkloads)
  /\ rAttempt[i] = "none"
  /\ rAttempt' = [rAttempt EXCEPT ![i] = "launched"]
  /\ UNCHANGED <<now, rWorkloads, rStages, rPc, rI, rWg, rWake, rCreatedAt, rWaitAt,
                 kPc, kStage, kDeadline, vPc, vDeadline>>

\* sendRequest, line 227: the server, still listening, takes the connection.
AttemptConnect(i) ==
  /\ rAttempt[i] = "launched"
  /\ vPc[i] = "serving"
  /\ rAttempt' = [rAttempt EXCEPT ![i] = "active"]
  /\ UNCHANGED <<now, rWorkloads, rStages, rPc, rI, rWg, rWake, rCreatedAt, rWaitAt,
                 kPc, kStage, kDeadline, vPc, vDeadline>>

\* sendRequest, line 227: Do returns without a connection (a policy has
\* rejected the request, or the connection was refused).
AttemptFails(i) ==
  /\ rAttempt[i] = "launched"
  /\ rAttempt' = [rAttempt EXCEPT ![i] = "recording"]
  /\ UNCHANGED <<now, rWorkloads, rStages, rPc, rI, rWg, rWake, rCreatedAt, rWaitAt,
                 kPc, kStage, kDeadline, vPc, vDeadline>>

\* sendRequest, line 227: Do returns the server's response.
AttemptResponse(i) ==
  /\ rAttempt[i] = "active"
  /\ rAttempt' = [rAttempt EXCEPT ![i] = "recording"]
  /\ UNCHANGED <<now, rWorkloads, rStages, rPc, rI, rWg, rWake, rCreatedAt, rWaitAt,
                 kPc, kStage, kDeadline, vPc, vDeadline>>

\* sendRequest, lines 229-267: the outcome is counted and the response time
\* observed; the goroutine returns.
AttemptRecord(i) ==
  /\ rAttempt[i] = "recording"
  /\ rAttempt' = [rAttempt EXCEPT ![i] = "none"]
  /\ UNCHANGED <<now, rWorkloads, rStages, rPc, rI, rWg, rWake, rCreatedAt, rWaitAt,
                 kPc, kStage, kDeadline, vPc, vDeadline>>

Attempt(i) ==
  \/ AttemptConnect(i)
  \/ AttemptFails(i)
  \/ AttemptResponse(i)
  \/ AttemptRecord(i)

PairServer(i) ==
  \/ ServerServe(i)
  \/ ServerStop(i)
  \/ ServerReturn(i)

\* main after parseConfig, with a config of MaxStrategies strategies.
InitRunner ==
  /\ now = 0
  /\ rStages \in 0..MaxRunStages
  /\ rI = 1
  /\ rWg = 0
  /\ rWake = 0
  /\ rCreatedAt = [i \in Strategies |-> -1]
  /\ rWaitAt = [i \in Strategies |-> -1]
  /\ kPc = [i \in Strategies |-> "none"]
  /\ kStage = [i \in Strategies |-> 0]
  /\ kDeadline = [i \in Strategies |-> 0]
  /\ vPc = [i \in Strategies |-> "none"]
  /\ vDeadline = [i \in Strategies |-> 0]
  /\ rAttempt = [i \in Strategies |-> "none"]

\* A config without workloads: main runs the strategies one after another.
InitSequential ==
  /\ InitClient
  /\ InitServer(1)
  /\ threads = 1
  /\ InitNoSampler
  /\ InitNoStages
  /\ InitNoPolicies
  /\ InitNoWorkloads
  /\ InitNoExt
  /\ InitRunner
  /\ rWorkloads = FALSE
  /\ rPc = "loop"

NextSequential ==
  /\ \/ Advance
     \/ RunnerLoop
     \/ RunnerPauseElapsed
     \/ RunnerStart
     \/ RunnerWait
     \/ \E i \in Strategies :
          \/ PairServer(i)
          \/ ClientNextStage(i)
          \/ ClientStageReturn(i)
          \/ ClientTick(i)
          \/ Attempt(i)
  /\ UNCHANGED <<clientVars, serverVars, loadVars, policyVars, workloadVars, extVars>>

SpecSequential == InitSequential /\ [][NextSequential]_vars

\* A config with workloads: main starts every pair and waits.
InitConcurrent ==
  /\ InitClient
  /\ InitServer(1)
  /\ threads = 1
  /\ InitNoSampler
  /\ InitNoStages
  /\ InitNoPolicies
  /\ InitNoWorkloads
  /\ InitNoExt
  /\ InitRunner
  /\ rWorkloads = TRUE
  /\ rPc = "startAll"

\* main's wg.Wait() of line 69 is left out: the counter is never 0 (see
\* WaitNeverReturns).
NextConcurrent ==
  /\ \/ Advance
     \/ RunnerStartAll
     \/ RunnerConfigServer
     \/ \E i \in Strategies :
          \/ PairServer(i)
          \/ ClientWorkloads(i)
          \/ ClientTick(i)
          \/ Attempt(i)
  /\ UNCHANGED <<clientVars, serverVars, loadVars, policyVars, workloadVars, extVars>>

SpecConcurrent == InitConcurrent /\ [][NextConcurrent]_vars

\* ---------------------------------------------------- strategy runner: claims

Created(i) == rCreatedAt[i] >= 0

BothReturned(i) == kPc[i] = "returned" /\ vPc[i] = "returned"

\* C25: in sequential mode a pair is created only when the pair of the
\* strategy before it has been created, both its Starts have returned and
\* wg.Wait has returned for it at least PauseSeconds earlier; so at most one
\* pair is running at any time.
C25_OneStrategyAtATime ==
  /\ \A i \in Strategies :
       (Created(i) /\ i > 1) =>
         /\ Created(i - 1)
         /\ BothReturned(i - 1)
         /\ rWaitAt[i - 1] >= rCreatedAt[i - 1]
         /\ rCreatedAt[i] >= rWaitAt[i - 1] + PauseSeconds
  /\ Cardinality({i \in Strategies : Created(i) /\ ~BothReturned(i)}) <= 1

\* The second strategy is in its second stage after the first has run its
\* two stages.
C25_Witness ==
  /\ rStages = 2
  /\ BothReturned(1)
  /\ kPc[2] = "stage"
  /\ kStage[2] = 2
  /\ vPc[2] = "serving"

\* C26: once wg.Wait has returned for a strategy, no attempt of its client is
\* still in sendRequest.
C26_NoAttemptAfterWait ==
  \A i \in Strategies : rWaitAt[i] >= 0 => rAttempt[i] = "none"

\* C27: in sequential mode a client launches a request only while its server
\* has not called Shutdown.
C27_ServerOutlastsClient ==
  [][\A i \in Strategies :
       (rAttempt[i] = "none" /\ rAttempt'[i] = "launched") =>
         vPc[i] \in {"started", "serving"}]_vars

\* C28: in parallel mode no server and no client that was started has
\* stopped.
C28_NoneStopsOnItsOwn ==
  \A i \in Strategies :
    Created(i) => vPc[i] \in {"started", "serving"} /\ kPc[i] \in {"started", "workloads"}

\* In parallel mode the counter of the WaitGroup does not return to 0 once
\* the first pair is started.
WaitNeverReturns == rPc = "wait" => rWg > 0

\* A config whose workload list has no workload, be it absent or empty: main
\* takes the sequential path (main.go line 45).
InitModes ==
  /\ InitClient
  /\ InitServer(1)
  /\ threads = 1
  /\ InitNoSampler
  /\ InitNoStages
  /\ InitNoPolicies
  /\ InitNoWorkloads
  /\ InitNoBreaker
  /\ InitNoLimiter
  /\ InitNoInstall
  /\ InitNoSharing
  /\ InitRunner
  /\ rWorkloads = FALSE
  /\ rEmpty \in BOOLEAN
  /\ rPc = "loop"

NextModes ==
  /\ \/ Advance
     \/ RunnerLoop
     \/ RunnerPauseElapsed
     \/ RunnerStart
     \/ RunnerWait
     \/ \E i \in Strategies :
          \/ PairServer(i)
          \/ ClientNextStage(i)
          \/ ClientStageReturn(i)
          \/ ClientWorkloads(i)
          \/ ClientTick(i)
          \/ Attempt(i)
  /\ UNCHANGED <<clientVars, serverVars, loadVars, policyVars, workloadVars, extVars>>

SpecModes == InitModes /\ [][NextModes]_vars

\* C38: whenever main takes the sequential path, no client enters the
\* workload loop: Client.Start takes the stage path, from which it returns
\* after the last stage.
C38_ModesAgree == \A i \in Strategies : kPc[i] # "workloads"

\* For a client in the workload loop wg.Wait does not return: main does not
\* get past that strategy.
NoWaitPastWorkloadLoop ==
  \A i \in Strategies : kPc[i] = "workloads" => rWaitAt[i] = -1 /\ rI = i

\* With a workload list that is nil the sequential path and the stage path
\* go together.
ModesAgreeOnNil == ~rEmpty => \A i \in Strategies : kPc[i] # "workloads"

\* ========================================================== circuit breaker

\* State changes of one breaker that are followed.
MaxChanges == 3

\* CircuitBreakerConfig (config.go lines 43-54): failure_thresholding_capacity,
\* failure_thresholding_period and failure_rate_threshold, each unset (0) or
\* set (10 executions, one second, 10 per cent).
BreakerConfigs == [capacity : {0, 10}, period : {0, Second}, rate : {0, 10}]

\* Config.ToPolicy, lines 261-269: the builder call the fields set select;
\* none of the four branches is taken when no condition holds.
FailureThresholding(pc) ==
  IF pc.capacity = 0 /\ pc.period = 0 THEN "WithFailureThreshold"
  ELSE IF pc.capacity # 0 /\ pc.period = 0 THEN "WithFailureThresholdRatio"
  ELSE IF pc.period # 0 /\ pc.rate = 0 THEN "WithFailureThresholdPeriod"
  ELSE IF pc.period # 0 /\ pc.rate # 0 THEN "WithFailureRateThreshold"
  ELSE "none"

\* The OnOpen listener (lines 272-274): ThrottleProbability.Set(1).
OnOpen(g) == 1

\* The OnClose listener leaves the gauge alone (mutation of line 276).
OnClose_KeepsGauge(g) == g

\* The OnClose listener (lines 275-277): ThrottleProbability.Set(0).
OnClose(g) == 0

\* ToPolicy builds the breaker (lines 258-278); a breaker starts closed and
\* its gauge is at 0 (buildPolicies, line 141; a new gauge otherwise).
BuildBreaker ==
  /\ cbThresholding = "none"
  /\ cbThresholding' = FailureThresholding(cbConfig)
  /\ cbState' = "closed"
  /\ gThrottle' = 0
  /\ UNCHANGED <<cbConfig, cbChanges, bPc>>

\* The breaker changes to state st and calls the listener of that state;
\* no listener is registered for the half-open state.
ChangeState(st) ==
  /\ cbChanges < MaxChanges
  /\ cbState # st
  /\ cbState' = st
  /\ cbChanges' = cbChanges + 1
  /\ gThrottle' = CASE st = "open" -> OnOpen(gThrottle)
                    [] st = "closed" -> OnClose(gThrottle)
                    [] OTHER -> gThrottle

\* An execution reaches the breaker: it is let through unless the breaker is
\* open, and is refused with circuitbreaker.ErrOpen when it is.
BreakerEnter(b) ==
  /\ cbThresholding # "none"
  /\ bPc[b] = "idle"
  /\ bPc' = [bPc EXCEPT ![b] = IF cbState = "open" THEN "refused" ELSE "running"]
  /\ UNCHANGED <<cbConfig, cbThresholding, cbState, cbChanges, gThrottle>>

\* The execution fails: a closed or half-open breaker may open on it.
BreakerFailure(b) ==
  /\ bPc[b] = "running"
  /\ bPc' = [bPc EXCEPT ![b] = "idle"]
  /\ \/ cbState # "open" /\ ChangeState("open")
     \/ UNCHANGED <<cbState, cbChanges, gThrottle>>
  /\ UNCHANGED <<cbConfig, cbThresholding>>

\* The execution succeeds: a half-open breaker may close on it.
BreakerSuccess(b) ==
  /\ bPc[b] = "running"
  /\ bPc' = [bPc EXCEPT ![b] = "idle"]
  /\ \/ cbState = "halfOpen" /\ ChangeState("closed")
     \/ UNCHANGED <<cbState, cbChanges, gThrottle>>
  /\ UNCHANGED <<cbConfig, cbThresholding>>

\* The refused execution returns to the client.
BreakerRefused(b) ==
  /\ bPc[b] = "refused"
  /\ bPc' = [bPc EXCEPT ![b] = "idle"]
  /\ UNCHANGED <<cbConfig, cbThresholding, cbState, cbChanges, gThrottle>>

\* The delay of an open breaker has passed: it becomes half-open.
BreakerDelayElapsed ==
  /\ cbState = "open"
  /\ ChangeState("halfOpen")
  /\ UNCHANGED <<cbConfig, cbThresholding, bPc>>

InitBreaker ==
  /\ InitClient
  /\ InitServer(1)
  /\ threads = 1
  /\ InitNoSampler
  /\ InitNoStages
  /\ InitNoPolicies
  /\ InitNoWorkloads
  /\ InitNoRunner
  /\ InitNoLimiter
  /\ InitNoInstall
  /\ InitNoSharing
  /\ InitNoEmptyList
  /\ cbConfig \in BreakerConfigs
  /\ cbThresholding = "none"
  /\ cbState = "closed"
  /\ cbChanges = 0
  /\ gThrottle = 0
  /\ bPc = [b \in Executions |-> "idle"]

\* One circuit breaker entry is built and executions go through it.
NextBreaker ==
  /\ \/ BuildBreaker
     \/ \E b \in Executions :
          \/ BreakerEnter(b)
          \/ BreakerFailure(b)
          \/ BreakerSuccess(b)
          \/ BreakerRefused(b)
     \/ BreakerDelayElapsed
  /\ UNCHANGED <<clientVars, serverVars, loadVars, policyVars, workloadVars, runnerVars,
                 limiterVars, installVars, shareVars, modeVars>>

SpecBreaker == InitBreaker /\ [][NextBreaker]_vars

\* --------------------------------------------------- circuit breaker: claims

\* C31: the breaker is built with an exact failure count when neither the
\* capacity nor the period is set, with a ratio over the capacity when the
\* capacity is set and the period is not, and with a failure rate over the
\* period in every other case, whether failure_rate_threshold is set or not.
C31_BreakerSelector ==
  cbThresholding # "none" =>
    cbThresholding =
      IF cbConfig.capacity = 0 /\ cbConfig.period = 0 THEN "WithFailureThreshold"
      ELSE IF cbConfig.capacity # 0 /\ cbConfig.period = 0
        THEN "WithFailureThresholdRatio"
      ELSE "WithFailureRateThreshold"

\* The selector is as stated whenever the period is unset or the rate is set.
SelectorOutsideCountOverPeriod ==
  (cbThresholding # "none" /\ ~(cbConfig.period # 0 /\ cbConfig.rate = 0)) =>
    cbThresholding =
      IF cbConfig.capacity = 0 /\ cbConfig.period = 0 THEN "WithFailureThreshold"
      ELSE IF cbConfig.capacity # 0 /\ cbConfig.period = 0
        THEN "WithFailureThresholdRatio"
      ELSE "WithFailureRateThreshold"

\* C33: the throttle_probability gauge is 1 whenever the breaker is open and
\* 0 whenever it is closed, after any sequence of state changes.
C33_GaugeTracksBreaker ==
  cbThresholding # "none" =>
    /\ cbState = "open" => gThrottle = 1
    /\ cbState = "closed" => gThrottle = 0

\* The breaker has opened, become half-open and closed again.
C33_Witness ==
  /\ cbState = "closed"
  /\ cbChanges = 3
  /\ gThrottle = 0

\* While half-open the gauge keeps the 1 the opening set.
GaugeKeptWhileHalfOpen == cbState = "halfOpen" => gThrottle = 1

\* ============================================ go-concurrency-limits limiter

\* The largest limit of the limiter's strategy.
MaxLimit == 2

Limits == 1..MaxLimit

\* What the inner function returns to Apply.
InnerResults == {"response", "error"}

\* gclLimiter.TryAcquirePermit (lines 139-145): ok of DefaultLimiter.Acquire,
\* which the simple strategy grants while fewer permits than the limit are out.
TryAcquirePermit == lBusy < lLimit

\* Apply runs the inner function whether or not it got a permit (mutation of
\* lines 189-194).
RunsInner_WithoutPermit(ok) == TRUE

\* gclExecutor.Apply, lines 189-194: the inner function runs only with a permit.
RunsInner(ok) == ok

\* Apply, line 189: the execution asks for a permit; without one it returns
\* adaptivelimiter.ErrExceeded (lines 190-193).
ApplyAcquire(e) ==
  /\ ePc[e] = "idle"
  /\ LET ok == TryAcquirePermit
     IN /\ lBusy' = IF ok THEN lBusy + 1 ELSE lBusy
        /\ ePermit' = [ePermit EXCEPT ![e] = ok]
        /\ IF RunsInner(ok)
             THEN /\ ePc' = [ePc EXCEPT ![e] = "acquired"]
                  /\ UNCHANGED eResult
             ELSE /\ ePc' = [ePc EXCEPT ![e] = "returned"]
                  /\ eResult' = [eResult EXCEPT ![e] = "exceeded"]
  /\ UNCHANGED <<lLimit, eInner, eRecorded>>

\* Apply, line 196: innerFn is called.
ApplyInnerCall(e) ==
  /\ ePc[e] = "acquired"
  /\ ePc' = [ePc EXCEPT ![e] = "inner"]
  /\ eInner' = [eInner EXCEPT ![e] = @ + 1]
  /\ UNCHANGED <<lLimit, lBusy, eRecorded, ePermit, eResult>>

\* innerFn returns its result.
ApplyInnerReturn(e) ==
  /\ ePc[e] = "inner"
  /\ \E r \in InnerResults : eResult' = [eResult EXCEPT ![e] = r]
  /\ ePc' = [ePc EXCEPT ![e] = "post"]
  /\ UNCHANGED <<lLimit, lBusy, eInner, eRecorded, ePermit>>

\* Apply, lines 197-199: PostExecute, then permit.Record (lines 172-174) hands
\* the permit back through OnSuccess, which may move the limit; the result is
\* returned.
ApplyRecord(e) ==
  /\ ePc[e] = "post"
  /\ eRecorded' = [eRecorded EXCEPT ![e] = @ + 1]
  /\ lBusy' = lBusy - 1
  /\ lLimit' \in Limits
  /\ ePc' = [ePc EXCEPT ![e] = "returned"]
  /\ UNCHANGED <<eInner, ePermit, eResult>>

Apply(e) ==
  \/ ApplyAcquire(e)
  \/ ApplyInnerCall(e)
  \/ ApplyInnerReturn(e)
  \/ ApplyRecord(e)

InitLimiter ==
  /\ InitClient
  /\ InitServer(1)
  /\ threads = 1
  /\ InitNoSampler
  /\ InitNoStages
  /\ InitNoPolicies
  /\ InitNoWorkloads
  /\ InitNoRunner
  /\ InitNoBreaker
  /\ InitNoInstall
  /\ InitNoSharing
  /\ InitNoEmptyList
  /\ lLimit \in Limits
  /\ lBusy = 0
  /\ ePc = [e \in Executions |-> "idle"]
  /\ eInner = [e \in Executions |-> 0]
  /\ eRecorded = [e \in Executions |-> 0]
  /\ ePermit = [e \in Executions |-> FALSE]
  /\ eResult = [e \in Executions |-> "none"]

\* Concurrent executions go through one limiter.
NextLimiter ==
  /\ \E e \in Executions : Apply(e)
  /\ UNCHANGED <<clientVars, serverVars, loadVars, policyVars, workloadVars, runnerVars,
                 breakerVars, installVars, shareVars, modeVars>>

SpecLimiter == InitLimiter /\ [][NextLimiter]_vars

\* ----------------------------------------------------------- limiter: claims

\* C32: an execution that got no permit returns AdaptiveLimiterExceeded and
\* has not called the inner function; one that got a permit calls the inner
\* function once, and once it has returned, with a response or an error, it
\* has handed the permit back once, after the inner function returned.
C32_ShortCircuitOrOnce ==
  \A e \in Executions :
    /\ eInner[e] <= 1 /\ eRecorded[e] <= 1
    /\ eInner[e] = 1 => ePermit[e]
    /\ eRecorded[e] = 1 => ePc[e] = "returned" /\ eInner[e] = 1
    /\ ePc[e] = "returned" =>
         IF ePermit[e]
           THEN eInner[e] = 1 /\ eRecorded[e] = 1 /\ eResult[e] \in InnerResults
           ELSE eInner[e] = 0 /\ eRecorded[e] = 0 /\ eResult[e] = "exceeded"

\* One execution was refused while the other held the only permit, and the
\* other has returned an error and handed its permit back.
C32_Witness ==
  \E e, f \in Executions :
    /\ ePc[e] = "returned" /\ eResult[e] = "exceeded"
    /\ ePc[f] = "returned" /\ eResult[f] = "error" /\ eRecorded[f] = 1

\* The permits out are those of the executions between acquire and record.
PermitsOutAreHeld ==
  lBusy = Cardinality({e \in Executions : ePermit[e] /\ eRecorded[e] = 0})

\* ================================================== request handler: claims

\* Request 1 declares a service time that takes Slices cycles, request 2 none
\* or one whose loop does not end by itself; either may be cancelled.
NextCancel ==
  /\ \/ \E s \in Servers : ServerStart(s)
     \/ HandleRequest(1, {Slices})
     \/ HandleRequest(2, ShortServiceTimes)
     \/ \E h \in {1, 2} : Cancel(h)
  /\ UNCHANGED <<clientVars, loadVars, ctlVars>>

\* One server with a single thread: a handler waits for the permit while the
\* other is inside a slice.
InitCancel == InitOneServer /\ threads = 1

SpecCancel == InitCancel /\ [][NextCancel]_vars

FairCancel == SpecCancel /\ FairHandlers

\* C34: once the context of a request is cancelled its handler does not
\* start another cycle, so that it performs at most the cycle it is in or was
\* already waiting for, and with fair scheduling it then returns, which it
\* does through the decrement of the inflight gauge.
C34_CancelBreaksLoop ==
  /\ [][\A h \in Requests :
          (hCancelled[h] /\ hPc'[h] = "acquire") => hPc[h] = "acquire"]_vars
  /\ \A h \in Requests : hCancelled[h] ~> (hPc[h] = "done")

\* A handler cancelled while it waited for a permit has performed that one
\* cycle and returned, short of its service time.
C34_Witness ==
  \E h \in Requests :
    /\ hCancelled[h]
    /\ hPc[h] = "done"
    /\ hWork[h] > 0
    /\ hWork[h] < hT[h]

\* C35: the arrival of a request whose body does not parse is answered 400
\* (the handler is at "bad") and changes neither the inflight gauge, nor the
\* service-time gauge, nor the permits; that handler never holds a permit
\* nor does any work.
C35_BadBodyLeavesServerUntouched ==
  /\ [][\A h \in Requests :
          (hPc[h] = "idle" /\ hPc'[h] = "bad") =>
            /\ inflight' = inflight
            /\ gServiceTime' = gServiceTime
            /\ avail' = avail
            /\ hHeld' = hHeld]_vars
  /\ [](\A h \in Requests : hPc[h] = "bad" => hHeld[h] = 0 /\ hWork[h] = 0)

\* A request is answered 400 while another one is inside a work slice.
C35_Witness ==
  \E h, g \in Requests :
    /\ hPc[h] = "bad"
    /\ hPc[g] = "sleep"
    /\ inflight[hSrv[g]] = 1
    /\ gServiceTime[hSrv[g]] = hT[g]

InstallWeights == {0, 2}

\* service_times of a workload: up to two entries.
InstallDistributions == SeqsUpTo({Entry(10, w) : w \in InstallWeights}, 2)

\* WeightSum as yaml.Unmarshal leaves it: 0, or the value of a weightsum key
\* (the field has no yaml tag, client.go line 43).
RawSums == {0, 9}

\* client.Workload (client.go lines 38-44), its name, rps and priority left out.
Workload(d, ws) == [serviceTimes |-> d, weightSum |-> ws]

\* The workload lists yaml.Unmarshal produces: up to two workloads.
RawLists ==
  SeqsUpTo({Workload(d, ws) : d \in InstallDistributions, ws \in RawSums}, 2)

\* configureWorkloads leaves WeightSum as it was unmarshalled (mutation of
\* line 64).
ConfigureWorkload_KeepsSum(workload) == workload

\* configureWorkloads, line 64: workload.WeightSum = int(workload.ServiceTimes.Sum()).
ConfigureWorkload(workload) ==
  [workload EXCEPT !.weightSum = Sum(workload.serviceTimes)]

\* configureWorkloads (lines 62-66): every workload of the list, in place.
ConfigureWorkloads(workloads) ==
  [k \in 1..Len(workloads) |-> ConfigureWorkload(workloads[k])]

\* parseConfig, line 37: the workloads of the config file are configured;
\* every client is then built on them (main.go line 87).
ParseWorkloads ==
  /\ iPc = "unmarshalled"
  /\ iRun' = ConfigureWorkloads(iRaw)
  /\ iPc' = "parsed"
  /\ UNCHANGED <<iRaw, iUpdates>>

\* The /client/workloads handler (lines 70-76) and updateClients (lines
\* 87-96): a POST whose body parses is configured and handed to every
\* client's UpdateWorkloads, which assigns it (client.go line 272).
PostWorkloads ==
  /\ iPc \in {"parsed", "posted"}
  /\ iUpdates < MaxUpdates
  /\ iUpdates' = iUpdates + 1
  /\ \E kind \in {"post", "badBody", "notPost"}, body \in RawLists :
       IF kind = "post"
         THEN /\ iRaw' = body
              /\ iRun' = ConfigureWorkloads(body)
              /\ iPc' = "posted"
         ELSE UNCHANGED <<iRaw, iRun, iPc>>

InitInstall ==
  /\ InitClient
  /\ InitServer(1)
  /\ threads = 1
  /\ InitNoSampler
  /\ InitNoStages
  /\ InitNoPolicies
  /\ InitNoWorkloads
  /\ InitNoRunner
  /\ InitNoBreaker
  /\ InitNoLimiter
  /\ InitNoSharing
  /\ InitNoEmptyList
  /\ iRaw \in RawLists
  /\ iRun = <<>>
  /\ iPc = "unmarshalled"
  /\ iUpdates = 0

NextInstall ==
  /\ \/ ParseWorkloads
     \/ PostWorkloads
  /\ UNCHANGED <<clientVars, serverVars, loadVars, policyVars, workloadVars, runnerVars,
                 breakerVars, limiterVars, shareVars, modeVars>>

SpecInstall == InitInstall /\ [][NextInstall]_vars

\* --------------------------------------------- workload installation: claims

\* The weights of the entries of d, added up from the first to the last.
TotalWeight(d) ==
  LET upTo[i \in 0..Len(d)] == IF i = 0 THEN 0 ELSE upTo[i - 1] + d[i].weight
  IN upTo[Len(d)]

\* C37: every workload the clients run, installed by parseConfig or by a
\* POST /client/workloads, has a WeightSum equal to the sum of the weights of
\* its service times.
C37_WeightSumAtInstall ==
  iPc \in {"parsed", "posted"} =>
    \A k \in 1..Len(iRun) : iRun[k].weightSum = TotalWeight(iRun[k].serviceTimes)

\* A POST installed two workloads; the first came with a weightsum of 9 and
\* runs with the 4 of its two entries.
C37_Witness ==
  /\ iPc = "posted"
  /\ Len(iRun) = 2
  /\ iRaw[1].weightSum = 9
  /\ iRun[1].weightSum = 4

\* ================================================= clients sharing a config

\* Every client is built on the same *client.Config (main.go line 87): the
\* clients have a mutex each and one Workloads field between them.  A
\* goroutine's position names the statement it executes next.

\* Client.Start, line 145: c.config.Workloads is read, no lock held; in
\* workload mode it is not nil.
SharedStartCheck(c) ==
  /\ sgPc[c] = "check"
  /\ sgPc' = [sgPc EXCEPT ![c] = "lock"]
  /\ UNCHANGED <<mMtx, sCancelSet, sDone, uPc, uIdx>>

\* Client.Start, lines 147-148: a new context, and c.mtx.Lock().
SharedStartLock(c) ==
  /\ sgPc[c] = "lock"
  /\ mMtx[c] = "free"
  /\ mMtx' = [mMtx EXCEPT ![c] = "write"]
  /\ sgPc' = [sgPc EXCEPT ![c] = "store"]
  /\ UNCHANGED <<sCancelSet, sDone, uPc, uIdx>>

\* Client.Start, lines 149-150: the cancel function of the new context is
\* stored, and c.mtx.Unlock().
SharedStartStore(c) ==
  /\ sgPc[c] = "store"
  /\ sCancelSet' = [sCancelSet EXCEPT ![c] = TRUE]
  /\ sDone' = [sDone EXCEPT ![c] = FALSE]
  /\ mMtx' = [mMtx EXCEPT ![c] = "free"]
  /\ sgPc' = [sgPc EXCEPT ![c] = "rlock"]
  /\ UNCHANGED <<uPc, uIdx>>

\* Client.Start, line 151: c.mtx.RLock().
SharedStartRLock(c) ==
  /\ sgPc[c] = "rlock"
  /\ mMtx[c] = "free"
  /\ mMtx' = [mMtx EXCEPT ![c] = "read"]
  /\ sgPc' = [sgPc EXCEPT ![c] = "range"]
  /\ UNCHANGED <<sCancelSet, sDone, uPc, uIdx>>

\* Client.Start, lines 152-155: c.config.Workloads is read by the range loop,
\* the tickers are launched, and c.mtx.RUnlock().
SharedStartRange(c) ==
  /\ sgPc[c] = "range"
  /\ mMtx' = [mMtx EXCEPT ![c] = "free"]
  /\ sgPc' = [sgPc EXCEPT ![c] = "wait"]
  /\ UNCHANGED <<sCancelSet, sDone, uPc, uIdx>>

\* Client.Start, lines 156-158: the context is done, the loop starts again.
SharedStartWake(c) ==
  /\ sgPc[c] = "wait"
  /\ sDone[c]
  /\ sgPc' = [sgPc EXCEPT ![c] = "lock"]
  /\ UNCHANGED <<mMtx, sCancelSet, sDone, uPc, uIdx>>

SharedStart(c) ==
  \/ SharedStartCheck(c)
  \/ SharedStartLock(c)
  \/ SharedStartStore(c)
  \/ SharedStartRLock(c)
  \/ SharedStartRange(c)
  \/ SharedStartWake(c)

\* updateClients (config server, lines 87-91): a POST /client/workloads has
\* been parsed and the loop over the clients begins.
SharedUpdateBegin ==
  /\ uPc = "idle"
  /\ uIdx' = 1
  /\ uPc' = "lock"
  /\ UNCHANGED <<mMtx, sgPc, sCancelSet, sDone>>

\* UpdateWorkloads, line 271: c.mtx.Lock() of the client the loop is at.
SharedUpdateLock ==
  /\ uPc = "lock"
  /\ mMtx[uIdx] = "free"
  /\ mMtx' = [mMtx EXCEPT ![uIdx] = "write"]
  /\ uPc' = "write"
  /\ UNCHANGED <<sgPc, sCancelSet, sDone, uIdx>>

\* UpdateWorkloads, line 272: c.config.Workloads = workloads, a write of the
\* field all the clients read.
SharedUpdateAssign ==
  /\ uPc = "write"
  /\ uPc' = "cancel"
  /\ UNCHANGED <<mMtx, sgPc, sCancelSet, sDone, uIdx>>

\* UpdateWorkloads, line 273: c.cancelWorkloads(); the call of a nil function
\* panics with the mutex locked.
SharedUpdateCancel ==
  /\ uPc = "cancel"
  /\ IF sCancelSet[uIdx]
       THEN /\ sDone' = [sDone EXCEPT ![uIdx] = TRUE]
            /\ uPc' = "unlock"
       ELSE /\ uPc' = "panic"
            /\ UNCHANGED sDone
  /\ UNCHANGED <<mMtx, sgPc, sCancelSet, uIdx>>

\* UpdateWorkloads, line 274: c.mtx.Unlock(); updateClients goes on to the
\* next client (lines 91-93) or replies.
SharedUpdateUnlock ==
  /\ uPc = "unlock"
  /\ mMtx' = [mMtx EXCEPT ![uIdx] = "free"]
  /\ IF uIdx + 1 \in SharingClients
       THEN uIdx' = uIdx + 1 /\ uPc' = "lock"
       ELSE uIdx' = 0 /\ uPc' = "idle"
  /\ UNCHANGED <<sgPc, sCancelSet, sDone>>

SharedUpdate ==
  \/ SharedUpdateBegin
  \/ SharedUpdateLock
  \/ SharedUpdateAssign
  \/ SharedUpdateCancel
  \/ SharedUpdateUnlock

\* main in parallel mode: the Start goroutine of every client has been
\* launched (main.go line 90) and the config server listens (line 68).
InitSharing ==
  /\ InitClient
  /\ InitServer(1)
  /\ threads = 1
  /\ InitNoSampler
  /\ InitNoStages
  /\ InitNoPolicies
  /\ InitNoWorkloads
  /\ InitNoRunner
  /\ InitNoBreaker
  /\ InitNoLimiter
  /\ InitNoInstall
  /\ InitNoEmptyList
  /\ mMtx = [c \in SharingClients |-> "free"]
  /\ sgPc = [c \in SharingClients |-> "check"]
  /\ sCancelSet = [c \in SharingClients |-> FALSE]
  /\ sDone = [c \in SharingClients |-> FALSE]
  /\ uPc = "idle"
  /\ uIdx = 0

NextSharing ==
  /\ \/ \E c \in SharingClients : SharedStart(c)
     \/ SharedUpdate
  /\ UNCHANGED <<clientVars, serverVars, loadVars, policyVars, workloadVars, runnerVars,
                 breakerVars, limiterVars, installVars, modeVars>>

SpecSharing == InitSharing /\ [][NextSharing]_vars

\* ------------------------------------------------- clients sharing: claims

\* Client c reads Config.Workloads next.
ReadsWorkloads(c) == sgPc[c] \in {"check", "range"}

\* C36: no goroutine reads Config.Workloads while UpdateWorkloads writes it:
\* when the next statement of updateClients is the assignment of line 272, no
\* Start goroutine of any client has a read of the list as its next statement.
C36_ReadsExcludeWrites ==
  ~(uPc = "write" /\ \E c \in SharingClients : ReadsWorkloads(c))

\* The same for the reads of the range loop alone, made under RLock.
RangeExcludesWrites ==
  ~(uPc = "write" /\ \E c \in SharingClients : sgPc[c] = "range")

\* The mutex of a client keeps the range loop of that client apart from the
\* writes made through that client.
OwnRangeExcludesWrites ==
  \A c \in SharingClients : (uPc = "write" /\ uIdx = c) => sgPc[c] # "range"

====
